---- MODULE Spec2Model ----
(***************************************************************************)
(* Model of the analytical core of Emotion-Driven-Storyteller:             *)
(*   fusion.py            normalize_probabilities, fuse_emotions           *)
(*   culture_adapters.py  normalize_culture, adjust_probabilities          *)
(*   emotion_forecaster.py / analytics_logger.py  generate_forecast        *)
(*                                                                         *)
(* Conventions.                                                            *)
(*  - A Python str is a sequence of one-character strings, so that         *)
(*    str.lower() and str.strip() are computed character by character.     *)
(*    None is the one-element sequence <<"None">>.                         *)
(*  - A Python float is an exact rational <<n, d>>, d > 0, in lowest       *)
(*    terms.  round(x, 1) rounds the exact value, ties to even.            *)
(*  - A Python dict is a sequence of <<key, value>> pairs with distinct    *)
(*    keys, in insertion order.                                            *)
(***************************************************************************)
EXTENDS Integers, Sequences, FiniteSets, TLC

(***************************************************************************)
(* Bounds of the model.                                                    *)
(***************************************************************************)
MaxWeight == 4
MaxModalities == 2
MaxKeys == 2
MaxEvents == 3
NumCallers == 2

(***************************************************************************)
(* Strings.                                                                *)
(***************************************************************************)
None == <<"None">>

UpperChars == <<"A","B","C","D","E","F","G","H","I","J","K","L","M",
                "N","O","P","Q","R","S","T","U","V","W","X","Y","Z">>
LowerChars == <<"a","b","c","d","e","f","g","h","i","j","k","l","m",
                "n","o","p","q","r","s","t","u","v","w","x","y","z">>
Whitespace == {" ", "\t", "\n"}

LowerChar(c) ==
    IF \E i \in DOMAIN UpperChars : UpperChars[i] = c
    THEN LowerChars[CHOOSE i \in DOMAIN UpperChars : UpperChars[i] = c]
    ELSE c

\* list(f): the sequence f with every element computed
List(f) == f \o <<>>

\* str.lower()
StrLower(s) == List([i \in DOMAIN s |-> LowerChar(s[i])])

\* str.strip()
StrStrip(s) ==
    LET keep == {i \in DOMAIN s : s[i] \notin Whitespace}
    IN  IF keep = {} THEN <<>>
        ELSE LET lo == CHOOSE i \in keep : \A j \in keep : i <= j
                 hi == CHOOSE i \in keep : \A j \in keep : j <= i
             IN  SubSeq(s, lo, hi)

\* Python truthiness of an Optional[str]
Falsy(s) == s = None \/ s = <<>>

(***************************************************************************)
(* Exact rationals standing for floats.                                    *)
(***************************************************************************)
RECURSIVE GCD(_, _)
GCD(a, b) == IF b = 0 THEN a ELSE GCD(b, a % b)

Abs(n) == IF n < 0 THEN -n ELSE n

Rat(n, d) ==
    IF n = 0 THEN <<0, 1>>
    ELSE LET g == GCD(Abs(n), d) IN <<n \div g, d \div g>>

Zero == <<0, 1>>
One == <<1, 1>>
Int2Rat(n) == <<n, 1>>

RAdd(x, y) == Rat(x[1] * y[2] + y[1] * x[2], x[2] * y[2])
RMul(x, y) == Rat(x[1] * y[1], x[2] * y[2])
RDiv(x, y) == Rat(x[1] * y[2], x[2] * y[1])
RLt(x, y) == x[1] * y[2] < y[1] * x[2]
RLe(x, y) == x[1] * y[2] <= y[1] * x[2]
RMin(x, y) == IF RLe(x, y) THEN x ELSE y

\* round(x * 100, 1): a percentage with one decimal
RoundPct(x) ==
    LET n == x[1] * 1000
        q == n \div x[2]
        r == n % x[2]
        t == IF 2 * r > x[2] THEN q + 1
             ELSE IF 2 * r < x[2] THEN q
             ELSE IF q % 2 = 0 THEN q ELSE q + 1
    IN  Rat(t, 10)

(***************************************************************************)
(* Dicts in insertion order.                                               *)
(***************************************************************************)
DKeys(d) == {d[i][1] : i \in DOMAIN d}
DItems(d) == {d[i] : i \in DOMAIN d}
DHas(d, k) == \E i \in DOMAIN d : d[i][1] = k
DGet(d, k, default) ==
    IF DHas(d, k) THEN d[CHOOSE i \in DOMAIN d : d[i][1] = k][2] ELSE default
\* d[k] = v
DPut(d, k, v) ==
    IF DHas(d, k)
    THEN List([i \in DOMAIN d |-> IF d[i][1] = k THEN <<k, v>> ELSE d[i]])
    ELSE Append(d, <<k, v>>)
\* {k: f(v) for k, v in d.items()} for a value taken from a second sequence
DMapValues(d, vals) == [i \in DOMAIN d |-> <<d[i][1], vals[i]>>]

RECURSIVE DSumFrom(_, _)
DSumFrom(d, i) == IF i > Len(d) THEN Zero ELSE RAdd(d[i][2], DSumFrom(d, i + 1))
\* sum(d.values())
DSum(d) == DSumFrom(d, 1)

IsDict(d) == \A i, j \in DOMAIN d : d[i][1] = d[j][1] => i = j

(***************************************************************************)
(* Python floats as the build computes them: IEEE-754 binary64, every       *)
(* operation rounded to the nearest value, ties to even.  A natural number  *)
(* too large for one integer is a sequence of limbs, least significant      *)
(* first, without leading zero limbs; a float >= 0 is <<m, e>>, standing    *)
(* for m * 2^e with m a 53-bit natural, and <<<<>>, 0>> for 0.0.  The       *)
(* quantities of fusion.py are never negative, subnormal or infinite.       *)
(***************************************************************************)
Limb == 32768
MantissaBits == 53

\* F of the value of e, which is computed once
Strict(e, F(_)) == CHOOSE r \in {F(v) : v \in {e}} : TRUE

RECURSIVE Pow2(_)
Pow2(n) == IF n = 0 THEN 1 ELSE 2 * Pow2(n - 1)

RECURSIVE BTrim(_)
BTrim(a) == IF a = <<>> \/ a[Len(a)] # 0 THEN a ELSE BTrim(SubSeq(a, 1, Len(a) - 1))

LimbAt(a, i) == IF i <= Len(a) THEN a[i] ELSE 0

RECURSIVE BFromInt(_)
BFromInt(n) == IF n = 0 THEN <<>> ELSE <<n % Limb>> \o BFromInt(n \div Limb)

RECURSIVE BToInt(_)
\* for values that fit one integer
BToInt(a) == IF a = <<>> THEN 0 ELSE a[1] + Limb * BToInt(Tail(a))

RECURSIVE BAddFrom(_, _, _, _)
BAddFrom(a, b, i, carry) ==
    IF i > Len(a) /\ i > Len(b) THEN (IF carry = 0 THEN <<>> ELSE <<carry>>)
    ELSE Strict(LimbAt(a, i) + LimbAt(b, i) + carry,
                LAMBDA s : <<s % Limb>> \o BAddFrom(a, b, i + 1, s \div Limb))
BAdd(a, b) == Strict(<<a, b>>, LAMBDA v : BAddFrom(v[1], v[2], 1, 0))

RECURSIVE BSubFrom(_, _, _, _)
BSubFrom(a, b, i, borrow) ==
    IF i > Len(a) THEN <<>>
    ELSE Strict(LimbAt(a, i) - LimbAt(b, i) - borrow,
                LAMBDA d : <<IF d < 0 THEN d + Limb ELSE d>>
                              \o BSubFrom(a, b, i + 1, IF d < 0 THEN 1 ELSE 0))
\* a - b, for a >= b
BSub(a, b) == Strict(<<a, b>>, LAMBDA v : BTrim(BSubFrom(v[1], v[2], 1, 0)))

RECURSIVE BCmpFrom(_, _, _)
BCmpFrom(a, b, i) ==
    IF i = 0 THEN 0
    ELSE IF a[i] < b[i] THEN -1
    ELSE IF a[i] > b[i] THEN 1
    ELSE BCmpFrom(a, b, i - 1)
BCmpValues(a, b) ==
    IF Len(a) < Len(b) THEN -1
    ELSE IF Len(a) > Len(b) THEN 1
    ELSE BCmpFrom(a, b, Len(a))
\* -1, 0 or 1 as a is less than, equal to or greater than b
BCmp(a, b) == Strict(<<a, b>>, LAMBDA v : BCmpValues(v[1], v[2]))

RECURSIVE BMulSmallFrom(_, _, _, _)
BMulSmallFrom(a, k, i, carry) ==
    IF i > Len(a) THEN (IF carry = 0 THEN <<>> ELSE <<carry>>)
    ELSE Strict(a[i] * k + carry,
                LAMBDA p : <<p % Limb>> \o BMulSmallFrom(a, k, i + 1, p \div Limb))
\* a * k, for 0 <= k < Limb
BMulSmall(a, k) ==
    Strict(<<a, k>>, LAMBDA v : IF v[2] = 0 THEN <<>>
                                ELSE BMulSmallFrom(v[1], v[2], 1, 0))

BShiftLimbs(a, n) ==
    Strict(a, LAMBDA v : IF v = <<>> THEN <<>> ELSE [i \in 1..n |-> 0] \o v)

RECURSIVE BMulFrom(_, _, _, _)
BMulFrom(a, b, j, sum) ==
    IF j > Len(b) THEN sum
    ELSE Strict(BAdd(sum, BShiftLimbs(BMulSmall(a, b[j]), j - 1)),
                LAMBDA next : BMulFrom(a, b, j + 1, next))
BMul(a, b) == Strict(<<a, b>>, LAMBDA v : BMulFrom(v[1], v[2], 1, <<>>))

\* a * 2^n
BShl(a, n) ==
    Strict(n, LAMBDA k : BShiftLimbs(BMulSmall(a, Pow2(k % 15)), k \div 15))

RECURSIVE BDivSmallFrom(_, _, _, _)
BDivSmallFrom(a, k, i, r) ==
    IF i = 0 THEN <<>>
    ELSE Strict(r * Limb + a[i],
                LAMBDA x : BDivSmallFrom(a, k, i - 1, x % k) \o <<x \div k>>)
BShrValues(a, n) ==
    IF Len(a) <= n \div 15 THEN <<>>
    ELSE Strict(SubSeq(a, n \div 15 + 1, Len(a)),
                LAMBDA top : BTrim(BDivSmallFrom(top, Pow2(n % 15), Len(top), 0)))
\* a \div 2^n
BShr(a, n) == Strict(<<a, n>>, LAMBDA v : BShrValues(v[1], v[2]))

RECURSIVE SmallBitLen(_)
SmallBitLen(k) == IF k = 0 THEN 0 ELSE 1 + SmallBitLen(k \div 2)
BitLen(a) == IF a = <<>> THEN 0 ELSE 15 * (Len(a) - 1) + SmallBitLen(a[Len(a)])

BOdd(a) == a # <<>> /\ a[1] % 2 = 1
BOne == <<1>>

FZero == <<<<>>, 0>>

\* q, or q + 1 when `up`, as a float with exponent e
FRoundUp(q, up, e) ==
    Strict(IF up THEN BAdd(q, BOne) ELSE q,
           LAMBDA m : IF BitLen(m) > MantissaBits THEN <<BShr(m, 1), e + 1>>
                      ELSE <<m, e>>)

\* n = q * 2^s + a remainder, which decides the direction
FRoundQuotient(n, q, s, e, sticky) ==
    Strict(BCmp(BSub(n, BShl(q, s)), BShl(BOne, s - 1)),
           LAMBDA half : FRoundUp(q, half > 0 \/ (half = 0 /\ (sticky \/ BOdd(q))),
                                  e + s))

FRoundValues(n, len, e, sticky) ==
    IF n = <<>> THEN FZero
    ELSE IF len <= MantissaBits
         THEN <<BShl(n, MantissaBits - len), e - (MantissaBits - len)>>
         ELSE Strict(BShr(n, len - MantissaBits),
                     LAMBDA q : FRoundQuotient(n, q, len - MantissaBits, e, sticky))

\* the float nearest to n * 2^e (+ a positive amount below one unit of n when
\* `sticky`), ties to even
FRound(n, e, sticky) ==
    Strict(<<n, e, sticky>>,
           LAMBDA v : Strict(BitLen(v[1]),
                             LAMBDA len : FRoundValues(v[1], len, v[2], v[3])))

\* float(n) for an integer n >= 0
FInt(n) == FRound(BFromInt(n), 0, FALSE)

FAddValues(x, y) ==
    IF x[1] = <<>> THEN y
    ELSE IF y[1] = <<>> THEN x
    ELSE IF x[2] >= y[2]
         THEN FRound(BAdd(BShl(x[1], x[2] - y[2]), y[1]), y[2], FALSE)
         ELSE FRound(BAdd(BShl(y[1], y[2] - x[2]), x[1]), x[2], FALSE)
\* x + y
FAdd(x, y) == Strict(<<x, y>>, LAMBDA v : FAddValues(v[1], v[2]))

FMulValues(x, y) ==
    IF x[1] = <<>> \/ y[1] = <<>> THEN FZero
    ELSE FRound(BMul(x[1], y[1]), x[2] + y[2], FALSE)
\* x * y
FMul(x, y) == Strict(<<x, y>>, LAMBDA v : FMulValues(v[1], v[2]))

\* one more bit of the quotient: <<q, r>> becomes <<2q + bit, 2r - bit * d>>
DivideStep(qr, d) ==
    Strict(BAdd(qr[2], qr[2]),
           LAMBDA r2 : IF BCmp(r2, d) >= 0
                       THEN <<BAdd(BAdd(qr[1], qr[1]), BOne), BSub(r2, d)>>
                       ELSE <<BAdd(qr[1], qr[1]), r2>>)

RECURSIVE LongDivide(_, _, _)
\* <<quotient, remainder>> of (r * 2^bits) by d, from <<q, r>>: the first half of
\* the bits, then the rest
LongDivide(qr, d, bits) ==
    IF bits = 0 THEN qr
    ELSE IF bits = 1 THEN DivideStep(qr, d)
    ELSE Strict(LongDivide(qr, d, bits \div 2),
                LAMBDA half : LongDivide(half, d, bits - bits \div 2))

FDivValues(x, y) ==
    IF x[1] = <<>> THEN FZero
    ELSE Strict(LongDivide(IF BCmp(x[1], y[1]) >= 0
                           THEN <<BOne, BSub(x[1], y[1])>>
                           ELSE <<<<>>, x[1]>>,
                           y[1], 55),
                LAMBDA qr : FRound(qr[1], x[2] - y[2] - 55, qr[2] # <<>>))
\* x / y, for y > 0
FDiv(x, y) == Strict(<<x, y>>, LAMBDA v : FDivValues(v[1], v[2]))

FLtValues(x, y) ==
    IF y[1] = <<>> THEN FALSE
    ELSE IF x[1] = <<>> THEN TRUE
    ELSE x[2] < y[2] \/ (x[2] = y[2] /\ BCmp(x[1], y[1]) < 0)
\* x < y
FLt(x, y) == Strict(<<x, y>>, LAMBDA v : FLtValues(v[1], v[2]))
FLe(x, y) == ~FLt(y, x)

\* n / 2^s to the nearest integer, ties to even
RoundShift(n, s) ==
    Strict(BShr(n, s),
           LAMBDA q : Strict(BCmp(BSub(n, BShl(q, s)), BShl(BOne, s - 1)),
                             LAMBDA half :
                                 BToInt(q) + (IF half > 0 \/ (half = 0 /\ BOdd(q))
                                              THEN 1 ELSE 0)))

FRoundTenthsValue(x) ==
    IF x[1] = <<>> THEN 0
    ELSE IF x[2] >= 0 THEN BToInt(BShl(BMulSmall(x[1], 10), x[2]))
    ELSE Strict(BMulSmall(x[1], 10), LAMBDA n : RoundShift(n, 0 - x[2]))
\* round(x, 1) in tenths: the decimal with one digit nearest to the value of the
\* float, ties to even (float_round of CPython rounds the exact value)
FRoundTenths(x) == Strict(x, LAMBDA v : FRoundTenthsValue(v))

\* the float a caller passes for the rational r >= 0
F64(r) == FDiv(FInt(r[1]), FInt(r[2]))

\* the float round(x, 1) returns, as the rational it is nearest to
FRound1(x) == Rat(FRoundTenths(x), 10)

(***************************************************************************)
(* fusion.py                                                               *)
(***************************************************************************)
\* mutant: the zero-total branch returns {} instead of zeroing the values
normalize_probabilities_DropsKeys(probabilities) ==
    LET total == DSum(probabilities)
    IN  IF RLe(total, Zero) THEN <<>>
        ELSE List([i \in DOMAIN probabilities |->
                    <<probabilities[i][1], RDiv(probabilities[i][2], total)>>])

normalize_probabilities(probabilities) ==
    LET total == DSum(probabilities)
    IN  IF RLe(total, Zero)
        THEN List([i \in DOMAIN probabilities |-> <<probabilities[i][1], Zero>>])
        ELSE List([i \in DOMAIN probabilities |->
                    <<probabilities[i][1], RDiv(probabilities[i][2], total)>>])

RECURSIVE Accumulate_Overwrite(_, _, _, _)
\* mutant: aggregated[emotion] = amount, where the code has +=
Accumulate_Overwrite(aggregated, normalized, factor, i) ==
    IF i > Len(normalized) THEN aggregated
    ELSE Accumulate_Overwrite(DPut(aggregated, normalized[i][1],
                                   RMul(factor, normalized[i][2])),
                              normalized, factor, i + 1)

\* for emotion, prob in normalized.items(): aggregated[emotion] += amount
RECURSIVE Accumulate(_, _, _, _)
Accumulate(aggregated, normalized, factor, i) ==
    IF i > Len(normalized) THEN aggregated
    ELSE LET emotion == normalized[i][1]
             prob == normalized[i][2]
             old == DGet(aggregated, emotion, Zero)
         IN  Accumulate(DPut(aggregated, emotion, RAdd(old, RMul(factor, prob))),
                        normalized, factor, i + 1)

\* the loop over the modalities; a modality is <<source, confidence, probs>>
RECURSIVE Aggregate(_, _, _, _)
Aggregate(aggregated, modalities, weights, m) ==
    IF m > Len(modalities) THEN aggregated
    ELSE LET source == modalities[m][1]
             confidence == modalities[m][2]
             probs == modalities[m][3]
         IN  IF probs = <<>>
             THEN Aggregate(aggregated, modalities, weights, m + 1)
             ELSE LET weight == DGet(weights, source, One)
                      normalized == normalize_probabilities(probs)
                      factor == RMul(weight, RDiv(confidence, Int2Rat(100)))
                  IN  Aggregate(Accumulate(aggregated, normalized, factor, 1),
                                modalities, weights, m + 1)

\* max(d.items(), key=lambda kv: kv[1]): the first item with the largest value
DMaxIndex(d) ==
    CHOOSE i \in DOMAIN d :
        /\ \A j \in DOMAIN d : RLe(d[j][2], d[i][2])
        /\ \A j \in DOMAIN d : j < i => RLt(d[j][2], d[i][2])

\* fuse_emotions, lines 37-46: the result, from the accumulator the loop has filled
FuseResult(aggregated) ==
    IF aggregated = <<>> THEN <<None, Zero, <<>>>>
    ELSE LET fused_probs == normalize_probabilities(aggregated)
             dominant_emotion == fused_probs[DMaxIndex(fused_probs)]
         IN  <<dominant_emotion[1], RoundPct(dominant_emotion[2]),
               List([i \in DOMAIN fused_probs |->
                       <<fused_probs[i][1], RoundPct(fused_probs[i][2])>>])>>

\* mutant: weights.setdefault(source, 1.0), which inserts the source it misses
WeightsAfterGet_Setdefault(weights, source) ==
    IF DHas(weights, source) THEN weights ELSE DPut(weights, source, One)

\* the caller's weights map after weights.get(source, 1.0): a read leaves it as it is
WeightsAfterGet(weights, source) == weights

\* mutant: one accumulator for all invocations (a module-level or instance attribute)
Frame_Shared(c) == 1

\* the frame of the invocation by caller c: `aggregated`, `weighted`, `history`,
\* `prepared`, ... are local variables, created anew by every call
Frame(c) == c

\* mutant: the accumulator is not normalized before it is returned
fuse_emotions_NoRenormalize(modalities, weights) ==
    LET aggregated == Aggregate(<<>>, modalities, weights, 1)
    IN  IF aggregated = <<>> THEN <<None, Zero, <<>>>>
        ELSE <<aggregated[DMaxIndex(aggregated)][1],
               RoundPct(aggregated[DMaxIndex(aggregated)][2]),
               List([i \in DOMAIN aggregated |->
                       <<aggregated[i][1], RoundPct(aggregated[i][2])>>])>>

\* returns <<dominant label or None, confidence percent, percentage dict>>
fuse_emotions(modalities, weights) ==
    LET aggregated == Aggregate(<<>>, modalities, weights, 1)
    IN  IF aggregated = <<>> THEN <<None, Zero, <<>>>>
        ELSE LET fused_probs == normalize_probabilities(aggregated)
                 dominant_emotion == fused_probs[DMaxIndex(fused_probs)]
                 confidence_percent == RoundPct(dominant_emotion[2])
             IN  <<dominant_emotion[1], confidence_percent,
                   List([i \in DOMAIN fused_probs |->
                           <<fused_probs[i][1], RoundPct(fused_probs[i][2])>>])>>

(***************************************************************************)
(* fusion.py in the arithmetic of the build: the same statements, every +,  *)
(* * and / rounded to binary64 in the order the code performs them.         *)
(***************************************************************************)
RECURSIVE FSumFrom(_, _, _)
FSumFrom(d, i, acc) ==
    IF i > Len(d) THEN acc ELSE FSumFrom(d, i + 1, FAdd(acc, d[i][2]))
\* sum(d.values()): from 0, one addition per value, in the order of the dict
FSum(d) == FSumFrom(d, 1, FZero)

normalize_probabilities64(probabilities) ==
    Strict(probabilities, LAMBDA p :
        Strict(FSum(p), LAMBDA total :
            IF FLe(total, FZero)
            THEN List([i \in DOMAIN p |-> <<p[i][1], FZero>>])
            ELSE List([i \in DOMAIN p |-> <<p[i][1], FDiv(p[i][2], total)>>])))

\* for emotion, prob in normalized.items():
\*     aggregated[emotion] += weight * prob * (confidence / 100.0)
RECURSIVE Accumulate64(_, _, _, _, _)
Accumulate64(aggregated, normalized, weight, confidence, i) ==
    IF i > Len(normalized) THEN aggregated
    ELSE Strict(FMul(FMul(weight, normalized[i][2]), FDiv(confidence, FInt(100))),
                LAMBDA amount :
         Strict(FAdd(DGet(aggregated, normalized[i][1], FZero), amount),
                LAMBDA sum :
         Strict(DPut(aggregated, normalized[i][1], sum),
                LAMBDA next :
                    Accumulate64(next, normalized, weight, confidence, i + 1))))

\* the numbers of a modality arrive as floats
Modality64(modality) ==
    <<modality[1], F64(modality[2]),
      List([i \in DOMAIN modality[3] |->
              <<modality[3][i][1], F64(modality[3][i][2])>>])>>

\* the loop over the modalities
RECURSIVE Aggregate64(_, _, _, _)
Aggregate64(aggregated, modalities, weights, m) ==
    IF m > Len(modalities) THEN aggregated
    ELSE Strict(Modality64(modalities[m]), LAMBDA modality :
             IF modality[3] = <<>>
             THEN Aggregate64(aggregated, modalities, weights, m + 1)
             ELSE Strict(<<F64(DGet(weights, modality[1], One)),
                           normalize_probabilities64(modality[3])>>,
                         LAMBDA v :
                  Strict(Accumulate64(aggregated, v[2], v[1], modality[2], 1),
                         LAMBDA next :
                             Aggregate64(next, modalities, weights, m + 1))))

\* max(d.items(), key=lambda kv: kv[1]): the first item with the largest value
DMaxIndex64(d) ==
    CHOOSE i \in DOMAIN d :
        /\ \A j \in DOMAIN d : FLe(d[j][2], d[i][2])
        /\ \A j \in DOMAIN d : j < i => FLt(d[j][2], d[i][2])

\* round(x * 100, 1)
Percent64(x) == FRound1(FMul(x, FInt(100)))

\* returns <<dominant label or None, confidence percent, percentage dict>>, the
\* rounded percentages given as the decimals they print as
fuse_emotions64(modalities, weights) ==
    Strict(Aggregate64(<<>>, modalities, weights, 1), LAMBDA aggregated :
        IF aggregated = <<>> THEN <<None, Zero, <<>>>>
        ELSE Strict(normalize_probabilities64(aggregated), LAMBDA fused_probs :
             Strict(fused_probs[DMaxIndex64(fused_probs)], LAMBDA dominant_emotion :
                 <<dominant_emotion[1], Percent64(dominant_emotion[2]),
                   List([i \in DOMAIN fused_probs |->
                           <<fused_probs[i][1], Percent64(fused_probs[i][2])>>])>>)))

(***************************************************************************)
(* culture_adapters.py                                                     *)
(***************************************************************************)
s_global == <<"g","l","o","b","a","l">>
s_indian == <<"i","n","d","i","a","n">>
s_japanese == <<"j","a","p","a","n","e","s","e">>
s_american == <<"a","m","e","r","i","c","a","n">>
s_face == <<"f","a","c","e">>
s_voice == <<"v","o","i","c","e">>
s_text == <<"t","e","x","t">>
s_fused == <<"f","u","s","e","d">>
s_happy == <<"h","a","p","p","y">>
s_sad == <<"s","a","d">>
s_angry == <<"a","n","g","r","y">>
s_neutral == <<"n","e","u","t","r","a","l">>
s_fear == <<"f","e","a","r">>
s_surprise == <<"s","u","r","p","r","i","s","e">>

DEFAULT_CULTURE == s_global
SUPPORTED_CULTURES == {s_global, s_indian, s_japanese, s_american}

\* _CULTURE_LIBRARY[culture]["probability_weights"].get(modality, {})
ProbabilityWeights(culture, modality) ==
    CASE culture = s_indian /\ modality = s_face ->
            << <<s_neutral, Rat(9, 10)>>, <<s_happy, Rat(11, 10)>>,
               <<s_sad, Rat(105, 100)>>, <<s_angry, Rat(95, 100)>> >>
      [] culture = s_indian /\ modality = s_voice ->
            << <<s_neutral, Rat(95, 100)>>, <<s_happy, Rat(105, 100)>>,
               <<s_sad, Rat(11, 10)>>, <<s_angry, Rat(9, 10)>> >>
      [] culture = s_indian /\ modality = s_text ->
            << <<s_neutral, Rat(9, 10)>>, <<s_happy, Rat(105, 100)>>,
               <<s_sad, Rat(11, 10)>> >>
      [] culture = s_japanese /\ modality = s_face ->
            << <<s_neutral, Rat(115, 100)>>, <<s_happy, Rat(95, 100)>>,
               <<s_sad, Rat(105, 100)>> >>
      [] culture = s_japanese /\ modality = s_voice ->
            << <<s_neutral, Rat(11, 10)>>, <<s_happy, Rat(95, 100)>>,
               <<s_sad, Rat(105, 100)>> >>
      [] culture = s_japanese /\ modality = s_text ->
            << <<s_neutral, Rat(11, 10)>>, <<s_happy, Rat(95, 100)>>,
               <<s_fear, Rat(105, 100)>> >>
      [] culture = s_american /\ modality = s_face ->
            << <<s_happy, Rat(11, 10)>>, <<s_surprise, Rat(105, 100)>>,
               <<s_neutral, Rat(95, 100)>> >>
      [] culture = s_american /\ modality = s_voice ->
            << <<s_happy, Rat(11, 10)>>, <<s_angry, Rat(105, 100)>>,
               <<s_neutral, Rat(9, 10)>> >>
      [] culture = s_american /\ modality = s_text ->
            << <<s_happy, Rat(11, 10)>>, <<s_surprise, Rat(105, 100)>>,
               <<s_fear, Rat(95, 100)>> >>
      [] OTHER -> <<>>

\* mutant: the code is matched in lower case but returned as it was given
normalize_culture_NoLower(code) ==
    IF Falsy(code) THEN DEFAULT_CULTURE
    ELSE IF StrLower(StrStrip(code)) \in SUPPORTED_CULTURES
         THEN StrStrip(code) ELSE DEFAULT_CULTURE

normalize_culture(code) ==
    IF Falsy(code) THEN DEFAULT_CULTURE
    ELSE LET lowered == StrLower(StrStrip(code))
         IN  IF lowered \in SUPPORTED_CULTURES THEN lowered ELSE DEFAULT_CULTURE

RECURSIVE Weighted_DefaultZero(_, _, _, _)
\* mutant: weights.get(label.lower(), 0.0), where the code defaults to 1.0
Weighted_DefaultZero(weighted, probabilities, weights, i) ==
    IF i > Len(probabilities) THEN weighted
    ELSE IF RLe(probabilities[i][2], Zero)
         THEN Weighted_DefaultZero(weighted, probabilities, weights, i + 1)
         ELSE Weighted_DefaultZero(
                  DPut(weighted, StrLower(probabilities[i][1]),
                       RMul(probabilities[i][2],
                            DGet(weights, StrLower(probabilities[i][1]), Zero))),
                  probabilities, weights, i + 1)

\* the loop filling `weighted`: entries <= 0 are skipped, labels lower-cased
RECURSIVE Weighted(_, _, _, _)
Weighted(weighted, probabilities, weights, i) ==
    IF i > Len(probabilities) THEN weighted
    ELSE LET label == probabilities[i][1]
             base == probabilities[i][2]
         IN  IF RLe(base, Zero)
             THEN Weighted(weighted, probabilities, weights, i + 1)
             ELSE LET multiplier == DGet(weights, StrLower(label), One)
                  IN  Weighted(DPut(weighted, StrLower(label), RMul(base, multiplier)),
                               probabilities, weights, i + 1)

RECURSIVE PositiveLowered_KeepsAll(_, _, _)
\* mutant: the fallback returns every entry, the ones that are not > 0 included
PositiveLowered_KeepsAll(acc, probabilities, i) ==
    IF i > Len(probabilities) THEN acc
    ELSE PositiveLowered_KeepsAll(
             DPut(acc, StrLower(probabilities[i][1]), probabilities[i][2]),
             probabilities, i + 1)

\* {label.lower(): float(value) for label, value in items if float(value) > 0}
RECURSIVE PositiveLowered(_, _, _)
PositiveLowered(acc, probabilities, i) ==
    IF i > Len(probabilities) THEN acc
    ELSE IF RLt(Zero, probabilities[i][2])
         THEN PositiveLowered(DPut(acc, StrLower(probabilities[i][1]), probabilities[i][2]),
                              probabilities, i + 1)
         ELSE PositiveLowered(acc, probabilities, i + 1)

\* adjust_probabilities, lines 110-117: the result, from the `weighted` the loop filled
AdjustResult(weighted, probabilities) ==
    IF weighted = <<>> THEN PositiveLowered(<<>>, probabilities, 1)
    ELSE IF RLe(DSum(weighted), Zero)
         THEN List([i \in DOMAIN weighted |-> <<weighted[i][1], Zero>>])
         ELSE List([i \in DOMAIN weighted |->
                 <<weighted[i][1], RoundPct(RDiv(weighted[i][2], DSum(weighted)))>>])

\* mutant: the multipliers of the culture are not applied
adjust_probabilities_IgnoresCulture(probabilities, culture, modality) ==
    IF probabilities = <<>> THEN <<>>
    ELSE IF Weighted(<<>>, probabilities, <<>>, 1) = <<>>
         THEN PositiveLowered(<<>>, probabilities, 1)
         ELSE List([i \in DOMAIN Weighted(<<>>, probabilities, <<>>, 1) |->
                 <<Weighted(<<>>, probabilities, <<>>, 1)[i][1],
                   RoundPct(RDiv(Weighted(<<>>, probabilities, <<>>, 1)[i][2],
                                 DSum(Weighted(<<>>, probabilities, <<>>, 1))))>>])

adjust_probabilities(probabilities, culture, modality) ==
    LET normalized == normalize_culture(culture)
    IN  IF probabilities = <<>> THEN <<>>
        ELSE LET weights == ProbabilityWeights(normalized, modality)
                 weighted == Weighted(<<>>, probabilities, weights, 1)
                 total == DSum(weighted)
             IN  IF weighted = <<>> THEN PositiveLowered(<<>>, probabilities, 1)
                 ELSE IF RLe(total, Zero)
                      THEN List([i \in DOMAIN weighted |-> <<weighted[i][1], Zero>>])
                      ELSE List([i \in DOMAIN weighted |->
                              <<weighted[i][1], RoundPct(RDiv(weighted[i][2], total))>>])

(***************************************************************************)
(* emotion_forecaster.py: the distribution helpers                         *)
(***************************************************************************)
\* {emotion: max(float(value), 0.0) for ... if value and value > 0}
RECURSIVE Filtered(_, _)
Filtered(scores, i) ==
    IF i > Len(scores) THEN <<>>
    ELSE IF RLt(Zero, scores[i][2])
         THEN <<scores[i]>> \o Filtered(scores, i + 1)
         ELSE Filtered(scores, i + 1)

\* mutant: the scores that are not > 0 are kept
_normalize_KeepsZeros(scores) ==
    IF RLe(DSum(scores), Zero) THEN <<>>
    ELSE List([i \in DOMAIN scores |-> <<scores[i][1], RDiv(scores[i][2], DSum(scores))>>])

_normalize(scores) ==
    LET filtered == Filtered(scores, 1)
        total == DSum(filtered)
    IN  IF RLe(total, Zero) THEN <<>>
        ELSE List([i \in DOMAIN filtered |->
                    <<filtered[i][1], RDiv(filtered[i][2], total)>>])

recent_weight == Rat(6, 10)
pattern_weight == Rat(4, 10)

RECURSIVE Combined(_, _, _, _)
\* the dict comprehension over `emotions`, taken in the order `order`
Combined(recent, pattern, order, i) ==
    IF i > Len(order) THEN <<>>
    ELSE IF DHas(recent, order[i]) \/ DHas(pattern, order[i])
         THEN << <<order[i], RAdd(RMul(recent_weight, DGet(recent, order[i], Zero)),
                                  RMul(pattern_weight, DGet(pattern, order[i], Zero)))>> >>
              \o Combined(recent, pattern, order, i + 1)
         ELSE Combined(recent, pattern, order, i + 1)

\* `emotions` is a Python set, and the order in which a run iterates it follows
\* the hash seed of the process: `order` lists the labels in that order (each
\* member of set(recent) | set(pattern) once, other labels are passed over).
_combine_distributions(recent, pattern, order) ==
    IF DKeys(recent) \cup DKeys(pattern) = {} THEN <<>>
    ELSE _normalize(Combined(recent, pattern, order, 1))

RECURSIVE Orders(_)
\* the iteration orders of a set: its members, each once, in any order
Orders(S) ==
    IF S = {} THEN {<<>>}
    ELSE UNION {{<<x>> \o o : o \in Orders(S \ {x})} : x \in S}

(***************************************************************************)
(* analytics_logger.py: the event store.                                   *)
(*   A stored event is [timestamp, emotion, confidence].  Its timestamp    *)
(*   text is an instant (hours since a Monday 00:00), "blank" (text that   *)
(*   pandas parses to NaT, such as the empty string) or "garbage" (text    *)
(*   that pandas.to_datetime refuses).  Its confidence is a number or      *)
(*   text that is no number.  The store holds the fields as decrypted.     *)
(***************************************************************************)
Instant(h) == [kind |-> "instant", hour |-> h]
BlankTime == [kind |-> "blank", hour |-> 0]
GarbageTime == [kind |-> "garbage", hour |-> 0]
NaT == BlankTime
Number(x) == [kind |-> "number", value |-> x]
NonNumeric == [kind |-> "text", value |-> Zero]

\* ORDER BY timestamp DESC compares the stored text: the empty string sorts below
\* every ISO timestamp, and a text starting with a letter above them
TextOrder(ts) ==
    CASE ts.kind = "blank" -> Int2Rat(-1)
      [] ts.kind = "instant" -> Int2Rat(ts.hour)
      [] OTHER -> Int2Rat(1000000)

\* rows in descending order of key[i], rows of equal key in their given order
SortDesc(rows, key) ==
    LET before(i) == {j \in DOMAIN rows :
                         RLt(key[i], key[j]) \/ (key[j] = key[i] /\ j < i)}
    IN  List([r \in DOMAIN rows |->
                rows[CHOOSE i \in DOMAIN rows : Cardinality(before(i)) = r - 1]])

Head_(rows, n) == IF Len(rows) > n THEN SubSeq(rows, 1, n) ELSE rows

\* fetch_events(limit): [ok, rows]; ok = FALSE stands for the exception raised.
\* `available` tells whether the database can be read.
fetch_events(rows_in_store, limit, available) ==
    IF ~available THEN [ok |-> FALSE, rows |-> <<>>]
    ELSE LET ordered == SortDesc(rows_in_store,
                                 List([i \in DOMAIN rows_in_store |->
                                         TextOrder(rows_in_store[i].timestamp)]))
             df == IF limit # 0 THEN Head_(ordered, limit) ELSE ordered
         IN  IF df = <<>> THEN [ok |-> TRUE, rows |-> <<>>]
             \* pd.to_datetime(df["timestamp"]) raises on text it cannot parse
             ELSE IF \E i \in DOMAIN df : df[i].timestamp.kind = "garbage"
                  THEN [ok |-> FALSE, rows |-> <<>>]
                  ELSE [ok |-> TRUE, rows |-> df]

(***************************************************************************)
(* emotion_forecaster.py: EmotionForecaster                                *)
(***************************************************************************)
SLOT_DEFINITIONS ==
    << [label |-> "Later today", offset_hours |-> 6],
       [label |-> "Tomorrow", offset_hours |-> 24],
       [label |-> "Upcoming few days", offset_hours |-> 72] >>
RECENCY_WINDOW_HOURS == 36
RECENCY_HALFLIFE_HOURS == 12
history_limit == 720

RECURSIVE SelectSeq_(_, _, _)
\* the rows i..Len(rows) whose index is in `keep`
SelectSeq_(rows, keep, i) ==
    IF i > Len(rows) THEN <<>>
    ELSE IF i \in keep THEN <<rows[i]>> \o SelectSeq_(rows, keep, i + 1)
         ELSE SelectSeq_(rows, keep, i + 1)
Where(rows, keep) == SelectSeq_(rows, keep, 1)

\* mutant: a failed fetch is caught and answered with an empty history
_load_history_MasksFailure(rows_in_store, available) ==
    IF ~fetch_events(rows_in_store, history_limit, available).ok
    THEN [ok |-> TRUE, rows |-> <<>>]
    ELSE [ok |-> TRUE,
          rows |-> Where(fetch_events(rows_in_store, history_limit, available).rows,
                         {i \in DOMAIN fetch_events(rows_in_store, history_limit, available).rows :
                            /\ fetch_events(rows_in_store, history_limit, available).rows[i].timestamp.kind = "instant"
                            /\ fetch_events(rows_in_store, history_limit, available).rows[i].emotion # None})]

\* _load_history: [ok, rows]
_load_history(rows_in_store, available) ==
    LET fetched == fetch_events(rows_in_store, history_limit, available)
        df == fetched.rows
        \* errors="coerce": what cannot be parsed becomes NaT
        coerced == List([i \in DOMAIN df |->
                      IF df[i].timestamp.kind = "instant" THEN df[i]
                      ELSE [df[i] EXCEPT !.timestamp = NaT]])
        dropped == Where(coerced, {i \in DOMAIN coerced : coerced[i].timestamp # NaT})
    IN  IF ~fetched.ok THEN fetched
        ELSE IF df = <<>> THEN fetched
        ELSE [ok |-> TRUE,
              rows |-> Where(dropped, {i \in DOMAIN dropped : dropped[i].emotion # None})]

DayNames == <<"Monday", "Tuesday", "Wednesday", "Thursday", "Friday", "Saturday", "Sunday">>
day_name(h) == DayNames[((h \div 24) % 7) + 1]
hour_of(h) == h % 24
date_of(h) == h \div 24

\* _prepare: [ok, rows]; astype(float) raises on a confidence that is no number
\* mutant: the labels keep the case they were stored in
_prepare_KeepsCase(df, now_ts) ==
    IF \E i \in DOMAIN df : df[i].confidence.kind # "number"
    THEN [ok |-> FALSE, rows |-> <<>>]
    ELSE LET prepared ==
                List([i \in DOMAIN df |->
                    [timestamp |-> df[i].timestamp.hour,
                     emotion |-> df[i].emotion,
                     confidence |-> df[i].confidence.value,
                     hours_ago |-> now_ts - df[i].timestamp.hour,
                     weekday |-> day_name(df[i].timestamp.hour),
                     hour_block |-> (hour_of(df[i].timestamp.hour) \div 6) * 6]])
         IN  [ok |-> TRUE,
              rows |-> SortDesc(prepared,
                                List([i \in DOMAIN prepared |->
                                         Int2Rat(prepared[i].timestamp)]))]

_prepare(df, now_ts) ==
    IF \E i \in DOMAIN df : df[i].confidence.kind # "number"
    THEN [ok |-> FALSE, rows |-> <<>>]
    ELSE LET prepared ==
                List([i \in DOMAIN df |->
                    [timestamp |-> df[i].timestamp.hour,
                     emotion |-> StrLower(df[i].emotion),
                     confidence |-> df[i].confidence.value,
                     hours_ago |-> now_ts - df[i].timestamp.hour,
                     weekday |-> day_name(df[i].timestamp.hour),
                     hour_block |-> (hour_of(df[i].timestamp.hour) \div 6) * 6]])
         IN  [ok |-> TRUE,
              rows |-> SortDesc(prepared,
                                List([i \in DOMAIN prepared |->
                                         Int2Rat(prepared[i].timestamp)]))]

\* the order of str values: by character, upper case before lower case
Ascii == <<" ">> \o UpperChars \o LowerChars
CharCode(c) == IF \E i \in DOMAIN Ascii : Ascii[i] = c
               THEN CHOOSE i \in DOMAIN Ascii : Ascii[i] = c ELSE 0
StrLess(a, b) ==
    \/ Len(a) < Len(b) /\ \A i \in DOMAIN a : a[i] = b[i]
    \/ \E i \in DOMAIN a \cap DOMAIN b :
          /\ CharCode(a[i]) < CharCode(b[i])
          /\ \A j \in 1..(i - 1) : a[j] = b[j]

\* the group keys of df.groupby("emotion"), sorted
GroupKeys(df) ==
    LET S == {df[i].emotion : i \in DOMAIN df}
    IN  List([r \in 1..Cardinality(S) |->
                CHOOSE k \in S : Cardinality({x \in S : StrLess(x, k)}) = r - 1])

RECURSIVE SumRows(_, _, _)
\* the sum of val[i] over the rows i..Len(df) of group k
SumRows(df, val, i) ==
    IF i > Len(df) THEN Zero ELSE RAdd(val[i], SumRows(df, val, i + 1))
GroupRows(df, k) == Where(df, {i \in DOMAIN df : df[i].emotion = k})

\* exp(-hours / RECENCY_HALFLIFE_HOURS) to three decimals, hours a multiple of 6
Decay(hours) ==
    CASE hours = -12 -> Rat(2718, 1000)
      [] hours = -6 -> Rat(1649, 1000)
      [] hours = 0 -> One
      [] hours = 6 -> Rat(607, 1000)
      [] hours = 12 -> Rat(368, 1000)
      [] hours = 18 -> Rat(223, 1000)
      [] hours = 24 -> Rat(135, 1000)
      [] hours = 30 -> Rat(82, 1000)
      [] hours = 36 -> Rat(50, 1000)

_recent_distribution(df) ==
    LET recent == Where(df, {i \in DOMAIN df : df[i].hours_ago <= RECENCY_WINDOW_HOURS})
        keys == GroupKeys(recent)
    IN  IF recent = <<>> THEN <<>>
        ELSE _normalize(List([r \in DOMAIN keys |->
                LET g == GroupRows(recent, keys[r])
                IN  <<keys[r],
                      SumRows(g, List([i \in DOMAIN g |-> Decay(g[i].hours_ago)]), 1)>>]))

\* mutant: the second stage (same bucket, any weekday) is left out
_pattern_distribution_SkipsBucketStage(df, target) ==
    LET both == Where(df, {i \in DOMAIN df :
                              /\ df[i].weekday = day_name(target)
                              /\ df[i].hour_block = (hour_of(target) \div 6) * 6})
        subset == IF both # <<>> THEN both ELSE df
        keys == GroupKeys(subset)
    IN  _normalize(List([r \in DOMAIN keys |->
            LET g == GroupRows(subset, keys[r])
            IN  <<keys[r], RDiv(SumRows(g, List([i \in DOMAIN g |-> g[i].confidence]), 1),
                                Int2Rat(Len(g)))>>]))

_pattern_distribution(df, target) ==
    LET weekday == day_name(target)
        block == (hour_of(target) \div 6) * 6
        both == Where(df, {i \in DOMAIN df :
                              df[i].weekday = weekday /\ df[i].hour_block = block})
        same_block == Where(df, {i \in DOMAIN df : df[i].hour_block = block})
        subset == IF both # <<>> THEN both
                  ELSE IF same_block # <<>> THEN same_block ELSE df
        keys == GroupKeys(subset)
    IN  _normalize(List([r \in DOMAIN keys |->
            LET g == GroupRows(subset, keys[r])
            IN  <<keys[r], RDiv(SumRows(g, List([i \in DOMAIN g |-> g[i].confidence]), 1),
                                Int2Rat(Len(g)))>>]))

_overall_distribution(df) ==
    LET keys == GroupKeys(df)
    IN  _normalize(List([r \in DOMAIN keys |->
            <<keys[r], Int2Rat(Len(GroupRows(df, keys[r])))>>]))

\* f"{x:.0f}" of a percentage x * 100
RoundInt(x) ==
    LET n == x[1] * 100
        q == n \div x[2]
        r == n % x[2]
    IN  IF 2 * r > x[2] THEN q + 1
        ELSE IF 2 * r < x[2] THEN q
        ELSE IF q % 2 = 0 THEN q ELSE q + 1

_time_bucket(hour) ==
    IF 5 <= hour /\ hour < 12 THEN "morning"
    ELSE IF 12 <= hour /\ hour < 17 THEN "afternoon"
    ELSE IF 17 <= hour /\ hour < 21 THEN "evening"
    ELSE "night"

\* mutant: the table has no entry for "fear"
_alert_profile_NoFear(emotion) ==
    LET e == StrLower(emotion)
    IN  CASE e = s_happy -> [level |-> "positive", message |-> "happy"]
          [] e = s_surprise -> [level |-> "info", message |-> "surprise"]
          [] e = s_neutral -> [level |-> "info", message |-> "neutral"]
          [] e = s_sad -> [level |-> "warning", message |-> "sad"]
          [] e = s_angry -> [level |-> "critical", message |-> "angry"]
          [] OTHER -> [level |-> "info", message |-> "generic"]

\* the "level" of _alert_profile(emotion); "generic" tells the default message
_alert_profile(emotion) ==
    LET e == StrLower(emotion)
    IN  CASE e = s_happy -> [level |-> "positive", message |-> "happy"]
          [] e = s_surprise -> [level |-> "info", message |-> "surprise"]
          [] e = s_neutral -> [level |-> "info", message |-> "neutral"]
          [] e = s_sad -> [level |-> "warning", message |-> "sad"]
          [] e = s_angry -> [level |-> "critical", message |-> "angry"]
          [] e = s_fear -> [level |-> "warning", message |-> "fear"]
          [] OTHER -> [level |-> "info", message |-> "generic"]

\* mutant: the weekday is taken from the wall clock, where the code takes the target's
_resolve_slot_label_WallClockDay(slot, target, today) ==
    IF slot.label = "Later today" /\ date_of(target) # today
    THEN [form |-> "Soon (%A %H:%M)", weekday |-> day_name(target), hour |-> hour_of(target)]
    ELSE IF slot.label = "Tomorrow"
    THEN [form |-> "Tomorrow (%A)", weekday |-> day_name(today * 24), hour |-> 0]
    ELSE IF slot.label = "Upcoming few days"
    THEN [form |-> "%A outlook", weekday |-> day_name(today * 24), hour |-> 0]
    ELSE [form |-> slot.label, weekday |-> "", hour |-> 0]

\* `today` is the date of pd.Timestamp.now(), the wall clock
_resolve_slot_label(slot, target, today) ==
    IF slot.label = "Later today" /\ date_of(target) # today
    THEN [form |-> "Soon (%A %H:%M)", weekday |-> day_name(target), hour |-> hour_of(target)]
    ELSE IF slot.label = "Tomorrow"
    THEN [form |-> "Tomorrow (%A)", weekday |-> day_name(target), hour |-> 0]
    ELSE IF slot.label = "Upcoming few days"
    THEN [form |-> "%A outlook", weekday |-> day_name(target), hour |-> 0]
    ELSE [form |-> slot.label, weekday |-> "", hour |-> 0]

\* mutant: the sentence on the overall likelihood is left out
_build_insights_TwoSentences(slot_time, emotion, recency_weights, pattern_weights, combined_weights, secondary) ==
    << [kind |-> "recent", about |-> emotion,
        percent |-> RoundInt(DGet(recency_weights, emotion, Zero))],
       [kind |-> "pattern",
        about |-> <<day_name(slot_time), _time_bucket(hour_of(slot_time))>>,
        percent |-> RoundInt(DGet(pattern_weights, emotion, Zero))] >>

\* mutant: the gap is compared as a fraction, where the code compares it in percent
_build_insights_GapAsFraction(slot_time, emotion, recency_weights, pattern_weights, combined_weights, secondary) ==
    LET insights ==
            << [kind |-> "recent", about |-> emotion,
                percent |-> RoundInt(DGet(recency_weights, emotion, Zero))],
               [kind |-> "pattern",
                about |-> <<day_name(slot_time), _time_bucket(hour_of(slot_time))>>,
                percent |-> RoundInt(DGet(pattern_weights, emotion, Zero))],
               [kind |-> "overall", about |-> <<>>,
                percent |-> RoundInt(DGet(combined_weights, emotion, Zero))] >>
        gap == RAdd(DGet(combined_weights, emotion, Zero),
                    RMul(Int2Rat(-1), IF secondary = None THEN Zero ELSE secondary[2]))
    IN  IF secondary # None /\ RLt(gap, Int2Rat(12))
        THEN Append(insights, [kind |-> "secondary", about |-> secondary[1],
                               percent |-> RoundInt(<<Abs(gap[1]), gap[2]>>)])
        ELSE insights

\* the sentences, each as the values it is formatted from
_build_insights(slot_time, emotion, recency_weights, pattern_weights, combined_weights, secondary) ==
    LET recency_share == DGet(recency_weights, emotion, Zero)
        pattern_share == DGet(pattern_weights, emotion, Zero)
        combined_share == DGet(combined_weights, emotion, Zero)
        insights ==
            << [kind |-> "recent", about |-> emotion, percent |-> RoundInt(recency_share)],
               [kind |-> "pattern",
                about |-> <<day_name(slot_time), _time_bucket(hour_of(slot_time))>>,
                percent |-> RoundInt(pattern_share)],
               [kind |-> "overall", about |-> <<>>, percent |-> RoundInt(combined_share)] >>
        gap == RAdd(combined_share, RMul(Int2Rat(-1), IF secondary = None THEN Zero
                                                       ELSE secondary[2]))
    IN  IF secondary # None /\ RLt(RMul(gap, Int2Rat(100)), Int2Rat(12))
        THEN Append(insights, [kind |-> "secondary", about |-> secondary[1],
                               percent |-> RoundInt(<<Abs(gap[1]), gap[2]>>)])
        ELSE insights

\* mutant: the confidence is the top score as a fraction, not times 100
SlotInsight_ConfidenceAsFraction(slot_label, target_time, recency_weights, pattern_weights, combined, ranked, previous_emotion) ==
    [label |-> slot_label,
     timestamp |-> target_time,
     emotion |-> ranked[1][1],
     confidence |-> ranked[1][2],
     alert_level |-> _alert_profile(ranked[1][1]).level,
     message |-> _alert_profile(ranked[1][1]).message,
     insights |-> _build_insights(target_time, ranked[1][1], recency_weights,
                                  pattern_weights, combined,
                                  IF Len(ranked) > 1 THEN ranked[2] ELSE None),
     secondary |-> IF Len(ranked) > 1 THEN ranked[2] ELSE None]

\* lines 69-103: the insight of a slot from its ranked combined distribution
SlotInsight(slot_label, target_time, recency_weights, pattern_weights, combined, ranked, previous_emotion) ==
    LET top_emotion == ranked[1][1]
        secondary == IF Len(ranked) > 1 THEN ranked[2] ELSE None
        alert == _alert_profile(ranked[1][1])
        insights == _build_insights(target_time, ranked[1][1], recency_weights,
                                    pattern_weights, combined,
                                    IF Len(ranked) > 1 THEN ranked[2] ELSE None)
    IN  [label |-> slot_label,
         timestamp |-> target_time,
         emotion |-> top_emotion,
         confidence |-> RoundPct(RMin(ranked[1][2], One)),
         alert_level |-> alert.level,
         message |-> alert.message,
         insights |-> IF ~Falsy(previous_emotion) /\ previous_emotion # top_emotion
                      THEN Append(insights, [kind |-> "shift",
                                             about |-> <<previous_emotion, top_emotion>>,
                                             percent |-> 0])
                      ELSE insights,
         secondary |-> secondary]

\* lines 66-103: [emitted, insight, previous_emotion]
SlotOutcome(slot_label, target_time, recency_weights, pattern_weights, combined, previous_emotion) ==
    IF combined = <<>>
    THEN [emitted |-> FALSE, insight |-> <<>>, previous_emotion |-> previous_emotion]
    ELSE [emitted |-> TRUE,
          insight |-> SlotInsight(slot_label, target_time, recency_weights,
                                  pattern_weights, combined,
                                  SortDesc(combined,
                                           List([i \in DOMAIN combined |-> combined[i][2]])),
                                  previous_emotion),
          previous_emotion |-> SortDesc(combined,
                                        List([i \in DOMAIN combined |-> combined[i][2]]))[1][1]]

\* lines 63-65: combined, or the overall distribution when it is empty
CombinedOrOverall(prepared, first) ==
    IF first = <<>> THEN _overall_distribution(prepared) ELSE first

\* lines 62-103, the pattern distribution given
SlotWithPattern(prepared, recency_weights, slot_label, target_time, pattern_weights, previous_emotion, order) ==
    SlotOutcome(slot_label, target_time, recency_weights, pattern_weights,
                CombinedOrOverall(prepared,
                    _combine_distributions(recency_weights, pattern_weights, order)),
                previous_emotion)

\* mutant: the insight is stamped with now, not with the time of its slot
ProcessSlotBody_TimestampNow(prepared, recency_weights, slot, now_ts, today, previous_emotion, order) ==
    SlotWithPattern(prepared, recency_weights,
                    _resolve_slot_label(slot, now_ts + slot.offset_hours, today),
                    now_ts,
                    _pattern_distribution(prepared, now_ts + slot.offset_hours),
                    previous_emotion, order)

\* one iteration of the loop over SLOT_DEFINITIONS (lines 60-103):
\* [emitted, insight, previous_emotion]
ProcessSlotBody(prepared, recency_weights, slot, now_ts, today, previous_emotion, order) ==
    SlotWithPattern(prepared, recency_weights,
                    _resolve_slot_label(slot, now_ts + slot.offset_hours, today),
                    now_ts + slot.offset_hours,
                    _pattern_distribution(prepared, now_ts + slot.offset_hours),
                    previous_emotion, order)

\* recency_weights as generate_forecast holds it at the loop
RecencyWeights(prepared) ==
    IF _recent_distribution(prepared) = <<>> THEN _overall_distribution(prepared)
    ELSE _recent_distribution(prepared)

(***************************************************************************)
(* Inputs of the pure functions.                                           *)
(***************************************************************************)
s_Happy == <<"H","a","p","p","y">>
s_french == <<"f","r","e","n","c","h">>

LabelPool == {s_happy, s_sad, s_Happy}
WeightValues == {Int2Rat(20 * w) : w \in 0..MaxWeight}

\* every dict with at most MaxKeys keys of LabelPool and values of WeightValues
Dists ==
    UNION {{d \in [1..n -> LabelPool \X WeightValues] : IsDict(d)} : n \in 0..MaxKeys}
LowerDists == {d \in Dists : \A k \in DKeys(d) : k = StrLower(k)}

\* the distributions handed to fuse_emotions
FuseDists ==
    { <<>>,
      << <<s_happy, Int2Rat(80)>>, <<s_sad, Int2Rat(20)>> >>,
      << <<s_happy, Int2Rat(40)>>, <<s_sad, Int2Rat(60)>> >>,
      << <<s_sad, Zero>>, <<s_happy, Zero>> >> }
Confidences == {Zero, Int2Rat(60), Int2Rat(80)}
\* every source, confidence and distribution above, a one-hot distribution at
\* confidence 100 and a tie
Modalities ==
    ({s_face, s_voice} \X Confidences \X FuseDists)
        \cup { <<s_face, Int2Rat(100), << <<s_sad, Int2Rat(100)>> >> >>,
               <<s_voice, Int2Rat(80),
                 << <<s_sad, Int2Rat(50)>>, <<s_happy, Int2Rat(50)>> >> >> }
ModalityLists == UNION {[1..n -> Modalities] : n \in 0..MaxModalities}
\* the sliders of app.py run from 0.1 to 2.0
WeightMaps ==
    { <<>>,
      << <<s_face, Rat(1, 2)>> >>,
      << <<s_face, Int2Rat(2)>>, <<s_voice, Int2Rat(2)>> >> }

UpperChar(c) ==
    IF \E j \in DOMAIN LowerChars : LowerChars[j] = c
    THEN UpperChars[CHOOSE j \in DOMAIN LowerChars : LowerChars[j] = c]
    ELSE c
StrUpper(s) == [i \in DOMAIN s |-> UpperChar(s[i])]

\* every upper/lower-case spelling of s
Spellings(s) ==
    {[i \in DOMAIN s |-> IF i \in up THEN UpperChar(s[i]) ELSE s[i]] :
        up \in SUBSET DOMAIN s}
CultureInputs ==
    {None, <<>>, <<" ">>, s_french, s_happy, <<" ">> \o s_indian \o <<"\n">>,
     <<"I","n","d","i","a","n"," ">>, <<"i","n"," ","d","i","a","n">>}
        \cup Spellings(s_global) \cup Spellings(s_indian)
        \cup SUPPORTED_CULTURES
        \cup {StrUpper(c) : c \in SUPPORTED_CULTURES}
AdjustCultures == {None, s_global, <<"G","l","o","b","a","l">>, s_indian, s_french}
AdjustModalities == {s_face, s_text, s_fused}
\* a modality and a culture no table knows, and the distributions with no weight > 0
s_gaze == <<"g","a","z","e">>
DegenerateDists ==
    { <<>>,
      << <<s_sad, Zero>> >>,
      << <<s_sad, Int2Rat(-20)>> >>,
      << <<s_Happy, Zero>>, <<s_sad, Int2Rat(-20)>> >> }
DegenerateInputs ==
    DegenerateDists \X {None, <<>>, s_global, s_japanese, s_french} \X {s_voice, s_gaze}

\* the emotions handed to _alert_profile
AlertInputs ==
    {s_happy, s_sad, s_angry, s_neutral, s_fear, s_surprise, s_Happy, s_french, <<>>}

\* `now` every six hours of a week; the wall clock is at `now`, or a day later
LabelNows == {6 * n : n \in 0..27}
LabelInputs ==
    {<<k, now, date_of(now) + late>> :
        k \in DOMAIN SLOT_DEFINITIONS, now \in LabelNows, late \in {0, 1}}

(***************************************************************************)
(* State.                                                                  *)
(*   op, args: the pure function under call and the arguments it is given  *)
(*   returned, ret: whether the call has returned, and what it returned    *)
(***************************************************************************)
VARIABLES op, args, returned, ret

(***************************************************************************)
(*   store: the rows of emotion_events, in the order they were inserted    *)
(*   pc: where the call of generate_forecast stands: "idle", "prepare",    *)
(*       "slots", "returned" or "raised" (an exception left the call)      *)
(*   up: whether the database could be read at the last call               *)
(*   now_ts, today: the `now` of the call and the date of the wall clock   *)
(*   history, prepared, recency_weights, slot, previous_emotion,           *)
(*   forecasts: the locals of generate_forecast (slot counts the slots     *)
(*       the loop has been through)                                        *)
(*   fetches: the calls of fetch_events made by this call                  *)
(*   shown: what _render_forecast_section has shown in this run of the     *)
(*       page ("nothing" before it ran)                                    *)
(***************************************************************************)
VARIABLES store, pc, up, now_ts, today, history, prepared, recency_weights,
          slot, previous_emotion, forecasts, fetches, shown

(***************************************************************************)
(*   callers: for each caller, the operation it has invoked, the arguments *)
(*       it passed (the objects themselves, as the callee may reach them), *)
(*       where the invocation stands, its loop counter and its result      *)
(*   frames: the local variables of the invocations, one frame for each    *)
(***************************************************************************)
VARIABLES callers, frames

pvars == <<op, args, returned, ret>>
cvars == <<callers, frames>>
locals == <<now_ts, today, history, prepared, recency_weights,
            slot, previous_emotion, forecasts, fetches>>
fvars == <<store, pc, up, locals, shown>>
vars == <<pvars, fvars, cvars>>

NoCall ==
    /\ now_ts = 0 /\ today = 0
    /\ history = <<>> /\ prepared = <<>> /\ recency_weights = <<>>
    /\ slot = 0 /\ previous_emotion = None /\ forecasts = <<>> /\ fetches = 0

InitForecast == store = <<>> /\ pc = "idle" /\ up = TRUE /\ shown = "nothing" /\ NoCall

IdleCaller == [op |-> "none", args |-> <<>>, pc |-> "idle", k |-> 0, ret |-> <<>>]
NoFrame ==
    [aggregated |-> <<>>, weighted |-> <<>>, history |-> <<>>, prepared |-> <<>>,
     recency_weights |-> <<>>, previous_emotion |-> None, forecasts |-> <<>>]
NoCallers ==
    /\ callers = [c \in 1..NumCallers |-> IdleCaller]
    /\ frames = [c \in 1..NumCallers |-> NoFrame]

\* Wednesday 12:00 and Wednesday 18:00 of the second week
Now1 == Instant(228).hour
Now2 == Instant(234).hour
\* <<now, date of the wall clock>>: the wall clock is at `now`, or a day later
Clock == {<<Now1, date_of(Now1)>>, <<Now2, date_of(Now2)>>, <<Now1, date_of(Now1) + 1>>}

Event(ts, emotion, confidence) ==
    [timestamp |-> ts, emotion |-> emotion, confidence |-> confidence]
WellFormed(e) ==
    e.timestamp.kind = "instant" /\ e.emotion # None /\ e.confidence.kind = "number"
Events ==
    { Event(Instant(222), s_angry, Number(Int2Rat(90))),
      Event(Instant(222), s_Happy, Number(Int2Rat(40))),
      Event(Instant(180), s_angry, Number(Int2Rat(90))),
      Event(Instant(66), s_sad, Number(Int2Rat(60))),
      Event(BlankTime, s_angry, Number(Int2Rat(90))),
      Event(GarbageTime, s_angry, Number(Int2Rat(90))),
      Event(Instant(222), None, Number(Int2Rat(90))),
      Event(Instant(222), s_angry, NonNumeric) }

\* the histories handed to _pattern_distribution: the well-formed events, and one
\* more so that a label is met with two confidences; newest first, as fetched
PatternEvents ==
    {e \in Events : WellFormed(e)} \cup {Event(Instant(222), s_angry, Number(Int2Rat(50)))}
PatternHistories ==
    {h \in UNION {[1..n -> PatternEvents] : n \in 1..MaxEvents} :
        \A i \in 1..(Len(h) - 1) : h[i].timestamp.hour >= h[i + 1].timestamp.hour}
PatternInputs ==
    {<<h, now, now + SLOT_DEFINITIONS[k].offset_hours>> :
        h \in PatternHistories, now \in {Now1, Now2}, k \in DOMAIN SLOT_DEFINITIONS}

\* the stores handed to fetch_events: events logged out of the order of their
\* timestamps; and the limits, from 0 to one more than a store can hold
FetchLog ==
    << Event(Instant(222), s_angry, Number(Int2Rat(90))),
       Event(Instant(66), s_sad, Number(Int2Rat(60))),
       Event(Instant(228), s_sad, Number(Int2Rat(80))),
       Event(Instant(180), s_Happy, Number(Int2Rat(40))) >>
FetchStores ==
    {Where(FetchLog, S) : S \in {T \in SUBSET DOMAIN FetchLog : Cardinality(T) <= MaxEvents}}
FetchInputs == FetchStores \X (0..(MaxEvents + 1))

\* calls of fuse_emotions with labels that are not lower case
MixedCaseFuseInputs ==
    { << << <<s_face, Int2Rat(80), << <<s_Happy, Int2Rat(100)>> >> >> >>, <<>> >>,
      << << <<s_face, Int2Rat(80), << <<s_Happy, Int2Rat(60)>>, <<s_happy, Int2Rat(40)>> >> >>,
            <<s_voice, Int2Rat(60), << <<s_happy, Int2Rat(50)>>, <<s_sad, Int2Rat(50)>> >> >> >>,
         <<>> >> }

\* the histories handed to _recent_distribution: events 48 hours before Now1 and
\* less, down to one logged 12 hours after it
RecentLog ==
    << Event(Instant(180), s_angry, Number(Int2Rat(80))),
       Event(Instant(192), s_sad, Number(Int2Rat(80))),
       Event(Instant(192), s_Happy, Number(Int2Rat(80))),
       Event(Instant(222), s_sad, Number(Int2Rat(80))),
       Event(Instant(228), s_angry, Number(Int2Rat(80))),
       Event(Instant(240), s_angry, Number(Int2Rat(80))) >>
RecentHistories ==
    {Where(RecentLog, S) :
        S \in {T \in SUBSET DOMAIN RecentLog : T # {} /\ Cardinality(T) <= MaxEvents}}
RecentInputs == RecentHistories \X {Now1, Now2}

\* every pair of the distributions `dists`, with every iteration order of its labels
CombineInputs(dists) ==
    UNION {{<<recent, pattern, order>> :
                order \in Orders(DKeys(recent) \cup DKeys(pattern))} :
            <<recent, pattern>> \in dists \X dists}

InitPure ==
    /\ InitForecast
    /\ NoCallers
    /\ returned = FALSE
    /\ ret = <<>>
    /\ \/ op = "normalize_probabilities" /\ args \in {<<d>> : d \in Dists}
       \/ op = "fuse_emotions" /\ args \in ModalityLists \X WeightMaps
       \/ op = "normalize_culture" /\ args \in {<<code>> : code \in CultureInputs}
       \/ op = "adjust_probabilities"
            /\ args \in Dists \X AdjustCultures \X AdjustModalities
       \/ op = "_combine_distributions" /\ args \in CombineInputs(LowerDists)
       \/ op = "adjust_probabilities" /\ args \in DegenerateInputs
       \/ op = "_alert_profile" /\ args \in {<<emotion>> : emotion \in AlertInputs}
       \/ op = "_resolve_slot_label" /\ args \in LabelInputs
       \/ op = "_pattern_distribution" /\ args \in PatternInputs
       \/ op = "_recent_distribution" /\ args \in RecentInputs
       \/ op = "fuse_emotions" /\ args \in MixedCaseFuseInputs
       \/ op = "fetch_events" /\ args \in FetchInputs

CallNormalizeProbabilities ==
    /\ op = "normalize_probabilities" /\ ~returned
    /\ ret' = normalize_probabilities(args[1])
    /\ returned' = TRUE
    /\ UNCHANGED <<op, args, fvars, cvars>>

CallFuseEmotions ==
    /\ op = "fuse_emotions" /\ ~returned
    /\ ret' = fuse_emotions(args[1], args[2])
    /\ returned' = TRUE
    /\ UNCHANGED <<op, args, fvars, cvars>>

CallNormalizeCulture ==
    /\ op = "normalize_culture" /\ ~returned
    /\ ret' = normalize_culture(args[1])
    /\ returned' = TRUE
    /\ UNCHANGED <<op, args, fvars, cvars>>

CallAdjustProbabilities ==
    /\ op = "adjust_probabilities" /\ ~returned
    /\ ret' = adjust_probabilities(args[1], args[2], args[3])
    /\ returned' = TRUE
    /\ UNCHANGED <<op, args, fvars, cvars>>

CallCombineDistributions ==
    /\ op = "_combine_distributions" /\ ~returned
    /\ ret' = _combine_distributions(args[1], args[2], args[3])
    /\ returned' = TRUE
    /\ UNCHANGED <<op, args, fvars, cvars>>

CallAlertProfile ==
    /\ op = "_alert_profile" /\ ~returned
    /\ ret' = _alert_profile(args[1])
    /\ returned' = TRUE
    /\ UNCHANGED <<op, args, fvars, cvars>>

\* generate_forecast, lines 60-61: target_time and the label of slot args[1]
CallResolveSlotLabel ==
    /\ op = "_resolve_slot_label" /\ ~returned
    /\ ret' = _resolve_slot_label(SLOT_DEFINITIONS[args[1]],
                                  args[2] + SLOT_DEFINITIONS[args[1]].offset_hours,
                                  args[3])
    /\ returned' = TRUE
    /\ UNCHANGED <<op, args, fvars, cvars>>

\* _pattern_distribution over the frame _prepare makes of the history args[1]
CallPatternDistribution ==
    /\ op = "_pattern_distribution" /\ ~returned
    /\ ret' = _pattern_distribution(_prepare(args[1], args[2]).rows, args[3])
    /\ returned' = TRUE
    /\ UNCHANGED <<op, args, fvars, cvars>>

\* _recent_distribution over the frame _prepare makes of the history args[1]
CallRecentDistribution ==
    /\ op = "_recent_distribution" /\ ~returned
    /\ ret' = _recent_distribution(_prepare(args[1], args[2]).rows)
    /\ returned' = TRUE
    /\ UNCHANGED <<op, args, fvars, cvars>>

\* _load_history, line 108: fetch_events(limit=self.history_limit), the forecaster
\* configured with history_limit = args[2], over the store args[1]
CallFetchEvents ==
    /\ op = "fetch_events" /\ ~returned
    /\ ret' = fetch_events(args[1], args[2], TRUE)
    /\ returned' = TRUE
    /\ UNCHANGED <<op, args, fvars, cvars>>

NextPure ==
    \/ CallFetchEvents
    \/ CallRecentDistribution
    \/ CallAlertProfile
    \/ CallResolveSlotLabel
    \/ CallPatternDistribution
    \/ CallNormalizeProbabilities
    \/ CallFuseEmotions
    \/ CallNormalizeCulture
    \/ CallAdjustProbabilities
    \/ CallCombineDistributions

SpecPure == InitPure /\ [][NextPure]_vars

(***************************************************************************)
(* The forecaster over the event store.                                    *)
(***************************************************************************)
Init ==
    /\ op = "none" /\ args = <<>> /\ returned = FALSE /\ ret = <<>>
    /\ InitForecast
    /\ NoCallers

\* log_emotion_event: INSERT INTO emotion_events, in a new run of the page
LogEmotionEvent ==
    /\ pc = "idle"
    /\ Len(store) < MaxEvents
    /\ \E e \in Events : store' = Append(store, e)
    /\ shown' = "nothing"
    /\ UNCHANGED <<pc, up, locals, pvars, cvars>>

\* generate_forecast, lines 45-47: history = self._load_history()
LoadHistory ==
    /\ pc = "idle"
    /\ \E available \in BOOLEAN, clock \in Clock :
        LET loaded == _load_history(store, available)
        IN  /\ up' = available
            /\ now_ts' = clock[1]
            /\ today' = clock[2]
            /\ fetches' = fetches + 1
            /\ history' = loaded.rows
            /\ pc' = IF ~loaded.ok THEN "raised"
                     ELSE IF loaded.rows = <<>> THEN "returned" ELSE "prepare"
    /\ shown' = "nothing"
    /\ UNCHANGED <<store, prepared, recency_weights, slot, previous_emotion,
                   forecasts, pvars, cvars>>

\* generate_forecast, lines 49-57
Prepare ==
    /\ pc = "prepare"
    /\ LET p == _prepare(history, now_ts)
       IN  /\ prepared' = p.rows
           /\ recency_weights' = IF p.ok THEN RecencyWeights(p.rows) ELSE <<>>
           /\ pc' = IF p.ok THEN "slots" ELSE "raised"
    /\ UNCHANGED <<store, up, now_ts, today, history, slot, previous_emotion,
                   forecasts, fetches, shown, pvars, cvars>>

\* generate_forecast, lines 59-105: one iteration of the loop, and the return
\* after the last
ProcessSlot ==
    /\ pc = "slots"
    /\ \E order \in Orders({prepared[i].emotion : i \in DOMAIN prepared}) :
            LET r == ProcessSlotBody(prepared, recency_weights, SLOT_DEFINITIONS[slot + 1],
                                     now_ts, today, previous_emotion, order)
            IN  /\ forecasts' = IF r.emitted THEN Append(forecasts, r.insight) ELSE forecasts
                /\ previous_emotion' = r.previous_emotion
    /\ slot' = slot + 1
    /\ pc' = IF slot + 1 = Len(SLOT_DEFINITIONS) THEN "returned" ELSE "slots"
    /\ UNCHANGED <<store, up, now_ts, today, history, prepared, recency_weights,
                   fetches, shown, pvars, cvars>>

\* what _render_forecast_section shows for the way the call ended
Rendering(ended, result) ==
    IF ended = "raised" THEN "warning"
    ELSE IF result = <<>> THEN "caption" ELSE "cards"

\* app.py _render_forecast_section: the caller, once generate_forecast has ended
RenderForecastSection ==
    /\ pc \in {"raised", "returned"}
    /\ shown' = Rendering(pc, forecasts)
    /\ pc' = "idle"
    /\ now_ts' = 0 /\ today' = 0
    /\ history' = <<>> /\ prepared' = <<>> /\ recency_weights' = <<>>
    /\ slot' = 0 /\ previous_emotion' = None /\ forecasts' = <<>> /\ fetches' = 0
    /\ UNCHANGED <<store, up, pvars, cvars>>

Next ==
    \/ LogEmotionEvent
    \/ LoadHistory
    \/ Prepare
    \/ ProcessSlot
    \/ RenderForecastSection

Spec == Init /\ [][Next]_vars

(***************************************************************************)
(* The forecaster over a store that is already filled: the store is drawn  *)
(* at the start, from a log with events that tie, an event whose label is  *)
(* the empty string and one without a label.                               *)
(***************************************************************************)
s_empty == <<>>
\* the events logged, in this order
StoredLog ==
    << Event(Instant(66), s_sad, Number(Int2Rat(60))),
       Event(Instant(180), s_Happy, Number(Int2Rat(40))),
       Event(Instant(222), s_empty, Number(Int2Rat(90))),
       Event(Instant(222), s_sad, Number(Int2Rat(90))),
       Event(Instant(222), s_angry, Number(Int2Rat(90))),
       Event(Instant(222), None, Number(Int2Rat(90))) >>
\* the stores: up to MaxEvents of these events, in the order they were logged
StoredHistories ==
    {Where(StoredLog, S) : S \in {T \in SUBSET DOMAIN StoredLog : Cardinality(T) <= MaxEvents}}

InitStored ==
    /\ op = "none" /\ args = <<>> /\ returned = FALSE /\ ret = <<>>
    /\ store \in StoredHistories
    /\ pc = "idle" /\ up = TRUE /\ shown = "nothing" /\ NoCall
    /\ NoCallers

NextStored ==
    \/ LoadHistory
    \/ Prepare
    \/ ProcessSlot
    \/ RenderForecastSection

SpecStored == InitStored /\ [][NextStored]_vars

(***************************************************************************)
(* fuse_emotions and normalize_probabilities called with floats, computed   *)
(* in binary64.                                                             *)
(***************************************************************************)
Fuse64Modalities ==
    { <<s_face, Int2Rat(75), << <<s_angry, Int2Rat(80)>>, <<s_sad, Int2Rat(50)>> >> >>,
      <<s_voice, Int2Rat(75), << <<s_angry, Int2Rat(10)>>, <<s_happy, Int2Rat(70)>> >> >>,
      <<s_face, Int2Rat(35), << <<s_neutral, Int2Rat(35)>>, <<s_happy, Int2Rat(45)>> >> >>,
      <<s_voice, Int2Rat(75), << <<s_neutral, Int2Rat(35)>>, <<s_happy, Int2Rat(45)>> >> >>,
      <<s_face, Int2Rat(80), << <<s_happy, Int2Rat(80)>>, <<s_sad, Int2Rat(20)>> >> >>,
      <<s_voice, Int2Rat(60), << <<s_happy, Int2Rat(40)>>, <<s_sad, Int2Rat(60)>> >> >>,
      <<s_text, Int2Rat(50), << <<s_sad, Int2Rat(50)>>, <<s_happy, Int2Rat(50)>> >> >>,
      <<s_text, Zero, << <<s_sad, Int2Rat(100)>> >> >> }
\* the modality lists of zero, one and two of these, under the default weights
Fuse64Inputs == (UNION {[1..n -> Fuse64Modalities] : n \in 0..2}) \X {<<>>}

InitFloat ==
    /\ InitForecast
    /\ NoCallers
    /\ returned = FALSE
    /\ ret = <<>>
    /\ \/ op = "fuse_emotions" /\ args \in Fuse64Inputs
       \/ op = "normalize_probabilities" /\ args \in {<<d>> : d \in Dists}

CallFuseEmotions64 ==
    /\ op = "fuse_emotions" /\ ~returned
    /\ ret' = fuse_emotions64(args[1], args[2])
    /\ returned' = TRUE
    /\ UNCHANGED <<op, args, fvars, cvars>>

CallNormalizeProbabilities64 ==
    /\ op = "normalize_probabilities" /\ ~returned
    /\ ret' = normalize_probabilities64(
                  List([i \in DOMAIN args[1] |-> <<args[1][i][1], F64(args[1][i][2])>>]))
    /\ returned' = TRUE
    /\ UNCHANGED <<op, args, fvars, cvars>>

NextFloat ==
    \/ CallFuseEmotions64
    \/ CallNormalizeProbabilities64

SpecFloat == InitFloat /\ [][NextFloat]_vars

(***************************************************************************)
(* Several callers invoking the core at once.  A step of a caller is a     *)
(* statement, or a loop iteration, of the operation it has invoked; the    *)
(* steps of different callers interleave in any order.  Events are logged  *)
(* only while no invocation is under way.                                  *)
(***************************************************************************)
\* the events logged, in this order
CallerLog ==
    << Event(Instant(222), s_Happy, Number(Int2Rat(40))),
       Event(Instant(66), s_sad, Number(Int2Rat(60))) >>
FuseCalls ==
    { << << <<s_face, Int2Rat(80), << <<s_happy, Int2Rat(80)>>, <<s_sad, Int2Rat(20)>> >> >>,
            <<s_voice, Int2Rat(60), << <<s_happy, Int2Rat(40)>>, <<s_sad, Int2Rat(60)>> >> >> >>,
         <<>> >>,
      << << <<s_voice, Int2Rat(80), << <<s_sad, Int2Rat(50)>>, <<s_happy, Int2Rat(50)>> >> >> >>,
         << <<s_voice, Rat(1, 2)>> >> >> }
AdjustCalls ==
    { << << <<s_sad, Int2Rat(20)>>, <<s_happy, Int2Rat(40)>> >>, s_indian, s_face >>,
      << << <<s_Happy, Zero>>, <<s_sad, Int2Rat(-20)>> >>, s_french, s_gaze >> }
ForecastCalls == {<<Now1, date_of(Now1)>>, <<Now2, date_of(Now2)>>}

InitCallers ==
    /\ op = "none" /\ args = <<>> /\ returned = FALSE /\ ret = <<>>
    /\ InitForecast
    /\ NoCallers

LogWhileIdle ==
    /\ \A c \in 1..NumCallers : callers[c].pc = "idle"
    /\ Len(store) < Len(CallerLog)
    /\ store' = Append(store, CallerLog[Len(store) + 1])
    /\ UNCHANGED <<pc, up, locals, shown, pvars, cvars>>

\* fuse_emotions, line 26: aggregated = defaultdict(float)
InvokeFuse(c) ==
    /\ callers[c].pc = "idle"
    /\ \E a \in FuseCalls :
          callers' = [callers EXCEPT ![c] =
                         [op |-> "fuse_emotions", args |-> a, pc |-> "fuse",
                          k |-> 0, ret |-> <<>>]]
    /\ frames' = [frames EXCEPT ![Frame(c)].aggregated = <<>>]
    /\ UNCHANGED <<fvars, pvars>>

\* fuse_emotions, lines 29-35: one iteration of the loop over the modalities
FuseIterate(c) ==
    /\ callers[c].pc = "fuse"
    /\ callers[c].k < Len(callers[c].args[1])
    /\ frames' = [frames EXCEPT ![Frame(c)].aggregated =
                     Aggregate(frames[Frame(c)].aggregated,
                               <<callers[c].args[1][callers[c].k + 1]>>,
                               callers[c].args[2], 1)]
    /\ callers' = [callers EXCEPT
                     ![c].k = @ + 1,
                     ![c].args = <<callers[c].args[1],
                                   IF callers[c].args[1][callers[c].k + 1][3] = <<>>
                                   THEN callers[c].args[2]
                                   ELSE WeightsAfterGet(callers[c].args[2],
                                            callers[c].args[1][callers[c].k + 1][1])>>]
    /\ UNCHANGED <<fvars, pvars>>

\* fuse_emotions, lines 37-46
FuseReturn(c) ==
    /\ callers[c].pc = "fuse"
    /\ callers[c].k = Len(callers[c].args[1])
    /\ callers' = [callers EXCEPT ![c].pc = "returned",
                                  ![c].ret = FuseResult(frames[Frame(c)].aggregated)]
    /\ UNCHANGED <<frames, fvars, pvars>>

\* adjust_probabilities, lines 92-102: weighted = {}
InvokeAdjust(c) ==
    /\ callers[c].pc = "idle"
    /\ \E a \in AdjustCalls :
          callers' = [callers EXCEPT ![c] =
                         [op |-> "adjust_probabilities", args |-> a, pc |-> "adjust",
                          k |-> 0, ret |-> <<>>]]
    /\ frames' = [frames EXCEPT ![Frame(c)].weighted = <<>>]
    /\ UNCHANGED <<fvars, pvars>>

\* adjust_probabilities, lines 103-108: one iteration of the loop over the items
AdjustIterate(c) ==
    /\ callers[c].pc = "adjust"
    /\ callers[c].k < Len(callers[c].args[1])
    /\ frames' = [frames EXCEPT ![Frame(c)].weighted =
                     Weighted(frames[Frame(c)].weighted,
                              <<callers[c].args[1][callers[c].k + 1]>>,
                              ProbabilityWeights(normalize_culture(callers[c].args[2]),
                                                 callers[c].args[3]), 1)]
    /\ callers' = [callers EXCEPT ![c].k = @ + 1]
    /\ UNCHANGED <<fvars, pvars>>

\* adjust_probabilities, lines 110-117
AdjustReturn(c) ==
    /\ callers[c].pc = "adjust"
    /\ callers[c].k = Len(callers[c].args[1])
    /\ callers' = [callers EXCEPT ![c].pc = "returned",
                                  ![c].ret = AdjustResult(frames[Frame(c)].weighted,
                                                          callers[c].args[1])]
    /\ UNCHANGED <<frames, fvars, pvars>>

\* generate_forecast(now), with the wall clock at the date args[2]
InvokeForecast(c) ==
    /\ callers[c].pc = "idle"
    /\ \E a \in ForecastCalls :
          callers' = [callers EXCEPT ![c] =
                         [op |-> "generate_forecast", args |-> a, pc |-> "load",
                          k |-> 0, ret |-> <<>>]]
    /\ UNCHANGED <<frames, fvars, pvars>>

\* generate_forecast, lines 45-47
ForecastLoad(c) ==
    /\ callers[c].pc = "load"
    /\ frames' = [frames EXCEPT ![Frame(c)].history = _load_history(store, TRUE).rows]
    /\ callers' = [callers EXCEPT ![c].pc =
                     IF ~_load_history(store, TRUE).ok THEN "raised"
                     ELSE IF _load_history(store, TRUE).rows = <<>> THEN "returned"
                     ELSE "prepare"]
    /\ UNCHANGED <<fvars, pvars>>

\* generate_forecast, lines 49-57
ForecastPrepare(c) ==
    /\ callers[c].pc = "prepare"
    /\ frames' = [frames EXCEPT
                     ![Frame(c)].prepared =
                         _prepare(frames[Frame(c)].history, callers[c].args[1]).rows,
                     ![Frame(c)].recency_weights =
                         RecencyWeights(_prepare(frames[Frame(c)].history,
                                                 callers[c].args[1]).rows),
                     ![Frame(c)].forecasts = <<>>,
                     ![Frame(c)].previous_emotion = None]
    /\ callers' = [callers EXCEPT ![c].pc =
                     IF _prepare(frames[Frame(c)].history, callers[c].args[1]).ok
                     THEN "slots" ELSE "raised"]
    /\ UNCHANGED <<fvars, pvars>>

\* what one iteration of the loop over the slots makes of the frame
FrameAfterSlot(frame, outcome) ==
    [frame EXCEPT !.forecasts = IF outcome.emitted THEN Append(@, outcome.insight) ELSE @,
                  !.previous_emotion = outcome.previous_emotion]

\* generate_forecast, lines 59-105: one iteration of the loop, and the return after
\* the last
ForecastSlot(c) ==
    /\ callers[c].pc = "slots"
    /\ \E order \in Orders({frames[Frame(c)].prepared[i].emotion :
                               i \in DOMAIN frames[Frame(c)].prepared}) :
          /\ frames' = [frames EXCEPT ![Frame(c)] =
                FrameAfterSlot(frames[Frame(c)],
                    ProcessSlotBody(frames[Frame(c)].prepared,
                                    frames[Frame(c)].recency_weights,
                                    SLOT_DEFINITIONS[callers[c].k + 1],
                                    callers[c].args[1], callers[c].args[2],
                                    frames[Frame(c)].previous_emotion, order))]
          /\ callers' = [callers EXCEPT
                ![c].k = @ + 1,
                ![c].pc = IF callers[c].k + 1 = Len(SLOT_DEFINITIONS)
                          THEN "returned" ELSE "slots",
                ![c].ret = IF callers[c].k + 1 = Len(SLOT_DEFINITIONS)
                           THEN frames'[Frame(c)].forecasts ELSE <<>>]
    /\ UNCHANGED <<fvars, pvars>>

\* the caller takes the result, or the exception; the locals are gone
Collect(c) ==
    /\ callers[c].pc \in {"returned", "raised"}
    /\ callers' = [callers EXCEPT ![c] = IdleCaller]
    /\ frames' = [frames EXCEPT ![Frame(c)] = NoFrame]
    /\ UNCHANGED <<fvars, pvars>>

NextCallers ==
    \/ LogWhileIdle
    \/ \E c \in 1..NumCallers :
          \/ InvokeFuse(c)
          \/ FuseIterate(c)
          \/ FuseReturn(c)
          \/ InvokeAdjust(c)
          \/ AdjustIterate(c)
          \/ AdjustReturn(c)
          \/ InvokeForecast(c)
          \/ ForecastLoad(c)
          \/ ForecastPrepare(c)
          \/ ForecastSlot(c)
          \/ Collect(c)

SpecCallers == InitCallers /\ [][NextCallers]_vars

(***************************************************************************)
(* Properties of the pure functions, checked under SpecPure.               *)
(***************************************************************************)
Called(name) == op = name /\ returned

\* the dict as a map, its insertion order forgotten
AsMap(d) == DItems(d)
Positive(x) == RLt(Zero, x)

RECURSIVE RSumOver(_, _)
\* the sum of f[i] over the finite set S of indices
RSumOver(f, S) ==
    IF S = {} THEN Zero
    ELSE LET i == CHOOSE j \in S : TRUE IN RAdd(f[i], RSumOver(f, S \ {i}))

\* the share of `label` in dict d as a fraction of d's total (0 when the total is 0)
Fraction(d, label) ==
    LET total == RSumOver([i \in DOMAIN d |-> d[i][2]], DOMAIN d)
    IN  IF Positive(total) THEN RDiv(DGet(d, label, Zero), total) ELSE Zero

\* what modality m adds for `label`: weight(source) x fraction(label) x confidence/100
Contribution(modalities, weights, m, label) ==
    RMul(RMul(DGet(weights, modalities[m][1], One), Fraction(modalities[m][3], label)),
         RDiv(modalities[m][2], Int2Rat(100)))
Acc(modalities, weights, label) ==
    RSumOver([m \in DOMAIN modalities |-> Contribution(modalities, weights, m, label)],
             DOMAIN modalities)
FuseLabels(modalities) == UNION {DKeys(modalities[m][3]) : m \in DOMAIN modalities}
AccTotal(modalities, weights) ==
    LET L == FuseLabels(modalities)
        ls == CHOOSE o \in Orders(L) : TRUE
    IN  RSumOver([i \in DOMAIN ls |-> Acc(modalities, weights, ls[i])], DOMAIN ls)

NothingContributes(modalities) ==
    \A m \in DOMAIN modalities : modalities[m][2] = Zero \/ modalities[m][3] = <<>>

\* C1: when every modality has confidence 0 or an empty distribution (the empty
\* list included), fuse_emotions returns (None, 0.0, {}).
C1_NoContributionReturnsNone ==
    (Called("fuse_emotions") /\ NothingContributes(args[1]))
        => ret = <<None, Zero, <<>>>>

\* C2: when some modality contributes a positive amount, every label gets the share
\* acc[label] / sum(acc) x 100 rounded to one decimal, the dominant label has the
\* largest returned share and the confidence is the returned share of the dominant
\* label.
C2_FusedShares ==
    (Called("fuse_emotions") /\ Positive(AccTotal(args[1], args[2])))
        => /\ IsDict(ret[3])
           /\ DKeys(ret[3]) = FuseLabels(args[1])
           /\ \A label \in FuseLabels(args[1]) :
                DGet(ret[3], label, None) =
                    RoundPct(RDiv(Acc(args[1], args[2], label),
                                  AccTotal(args[1], args[2])))
           /\ DHas(ret[3], ret[1])
           /\ \A label \in DKeys(ret[3]) :
                RLe(DGet(ret[3], label, Zero), DGet(ret[3], ret[1], Zero))
           /\ ret[2] = DGet(ret[3], ret[1], None)

C2_Witness ==
    /\ Called("fuse_emotions")
    /\ args[1] = << <<s_face, Int2Rat(80),
                      << <<s_happy, Int2Rat(80)>>, <<s_sad, Int2Rat(20)>> >> >>,
                    <<s_voice, Int2Rat(60),
                      << <<s_happy, Int2Rat(40)>>, <<s_sad, Int2Rat(60)>> >> >> >>
    /\ args[2] = <<>>
    /\ ret = <<s_happy, Rat(629, 10),
               << <<s_happy, Rat(629, 10)>>, <<s_sad, Rat(371, 10)>> >> >>

TwiceTheSame(modalities, weights) ==
    /\ Len(modalities) = 2
    /\ modalities[1][3] = modalities[2][3]
    /\ Positive(RSumOver([i \in DOMAIN modalities[1][3] |-> modalities[1][3][i][2]],
                         DOMAIN modalities[1][3]))
    /\ Positive(modalities[1][2]) /\ Positive(modalities[2][2])
    /\ DGet(weights, modalities[1][1], One) = DGet(weights, modalities[2][1], One)

\* C3, in exact arithmetic: two modalities carrying the same distribution d
\* (positive total, positive confidences, equal source weights) fuse to what one
\* modality carrying d fuses to: the same dominant label and confidence, and the
\* distribution normalize(d) x 100 rounded to one decimal.
C3_TwoIdenticalAsOne ==
    (Called("fuse_emotions") /\ TwiceTheSame(args[1], args[2]))
        => /\ ret = fuse_emotions(<<args[1][1]>>, args[2])
           /\ ret = fuse_emotions(<<args[1][2]>>, args[2])
           /\ ret[3] = [i \in DOMAIN args[1][1][3] |->
                          <<args[1][1][3][i][1],
                            RoundPct(Fraction(args[1][1][3], args[1][1][3][i][1]))>>]

C3_Witness ==
    /\ Called("fuse_emotions")
    /\ TwiceTheSame(args[1], args[2])
    /\ args[1][1][1] # args[1][2][1]
    /\ args[1][1][2] # args[1][2][2]
    /\ Len(args[1][1][3]) = 2
    /\ ret[1] = s_happy /\ ret[2] = Int2Rat(80)

\* C4: normalize_probabilities keeps exactly the input's keys; with a positive total
\* each value is weight/total and the values sum to 1; the result is all-zero exactly
\* when the total is <= 0; the empty map gives the empty map.
C4_NormalizeSumsToOne ==
    Called("normalize_probabilities") =>
        LET d == args[1]
            total == RSumOver([i \in DOMAIN d |-> d[i][2]], DOMAIN d)
        IN  /\ Len(ret) = Len(d)
            /\ \A i \in DOMAIN d : ret[i][1] = d[i][1]
            /\ Positive(total) =>
                  /\ RSumOver([i \in DOMAIN ret |-> ret[i][2]], DOMAIN ret) = One
                  /\ \A i \in DOMAIN d : RMul(ret[i][2], total) = d[i][2]
            /\ (\A i \in DOMAIN ret : ret[i][2] = Zero) <=> RLe(total, Zero)
            /\ d = <<>> => ret = <<>>

C4_Witness ==
    /\ Called("normalize_probabilities")
    /\ Len(args[1]) = 2
    /\ args[1][1][2] = Zero /\ Positive(args[1][2][2])
    /\ ret[2][2] = One

IsSpelling(code, c) == Len(code) = Len(c) /\ \A i \in DOMAIN c : LowerChar(code[i]) = c[i]
\* a spelling of c with white space before or after it
IsPaddedSpelling(code, c) ==
    \E lo, hi \in DOMAIN code :
        /\ lo <= hi
        /\ IsSpelling(SubSeq(code, lo, hi), c)
        /\ \A i \in DOMAIN code : (i < lo \/ i > hi) => code[i] \in Whitespace

\* C5: normalize_culture returns a supported culture code; None, the empty string and
\* a code that is no spelling of a supported code (white space around it set aside)
\* give "global"; any upper/lower-case spelling of a supported code gives that code
\* in lower case; applying the function to its result changes nothing.
C5_NormalizeCulture ==
    Called("normalize_culture") =>
        LET code == args[1]
        IN  /\ ret \in {s_global, s_indian, s_japanese, s_american}
            /\ (code = None \/ code = <<>>) => ret = s_global
            /\ (code # None /\ \A c \in SUPPORTED_CULTURES : ~IsPaddedSpelling(code, c))
                    => ret = s_global
            /\ \A c \in SUPPORTED_CULTURES : (code # None /\ IsSpelling(code, c)) => ret = c
            /\ normalize_culture(ret) = ret

C5_Witness ==
    /\ Called("normalize_culture")
    /\ args[1] = <<"I","n","D","i","A","n">>
    /\ ret = s_indian

\* normalize_probabilities(d) with every value x 100, rounded to one decimal
NormalizedPercent(d) ==
    {<<d[i][1], RoundPct(Fraction(d, d[i][1]))>> : i \in DOMAIN d}
GlobalFace == Called("adjust_probabilities") /\ args[2] = s_global /\ args[3] = s_face

\* C6 as stated: for any distribution d, adjust_probabilities(d, "global", "face")
\* has the labels and values of normalize_probabilities(d) x 100 rounded to one
\* decimal, zero-weight entries and upper-case labels included.
C6_Original == GlobalFace => AsMap(ret) = NormalizedPercent(args[1])

\* C6 amended: the same, for the distributions whose weights are all > 0 and whose
\* labels have no upper-case letter.
C6_GlobalIsNormalize ==
    (GlobalFace /\ \A i \in DOMAIN args[1] :
                       Positive(args[1][i][2]) /\ StrLower(args[1][i][1]) = args[1][i][1])
        => AsMap(ret) = NormalizedPercent(args[1])

C6_Witness ==
    /\ GlobalFace
    /\ args[1] = << <<s_sad, Int2Rat(20)>>, <<s_happy, Int2Rat(40)>> >>
    /\ ret = << <<s_sad, Rat(333, 10)>>, <<s_happy, Rat(667, 10)>> >>

\* the weighted score 0.6 x recent + 0.4 x pattern of a label
Score(recent, pattern, label) ==
    RAdd(RDiv(RMul(Int2Rat(6), DGet(recent, label, Zero)), Int2Rat(10)),
         RDiv(RMul(Int2Rat(4), DGet(pattern, label, Zero)), Int2Rat(10)))

\* C10: _combine_distributions returns the empty map or a map whose values are all
\* > 0 and sum to 1; it is empty exactly when no label has a positive weighted score
\* 0.6 x recent + 0.4 x pattern.
C10_CombinedSumsToOne ==
    Called("_combine_distributions") =>
        /\ \/ ret = <<>>
           \/ /\ \A i \in DOMAIN ret : Positive(ret[i][2])
              /\ RSumOver([i \in DOMAIN ret |-> ret[i][2]], DOMAIN ret) = One
        /\ ret = <<>> <=>
              ~\E label \in DKeys(args[1]) \cup DKeys(args[2]) :
                  Positive(Score(args[1], args[2], label))

C10_Witness ==
    /\ Called("_combine_distributions")
    /\ args[1] = << <<s_happy, Int2Rat(20)>>, <<s_sad, Zero>> >>
    /\ args[2] = << <<s_happy, Int2Rat(20)>> >>
    /\ ret = << <<s_happy, One>> >>

\* the alert the catalog gives an emotion written in lower case
CatalogLevel(e) ==
    IF e = s_happy THEN "positive"
    ELSE IF e \in {s_sad, s_fear} THEN "warning"
    ELSE IF e = s_angry THEN "critical"
    ELSE "info"
Catalogued == {s_happy, s_sad, s_fear, s_angry, s_surprise, s_neutral}

\* C13: _alert_profile gives happy the level positive, sad and fear warning, angry
\* critical, surprise and neutral info, each with its own message, and any other
\* emotion info with the generic message; the level is one of positive, info,
\* warning, critical.
C13_AlertFromEmotion ==
    Called("_alert_profile") =>
        /\ ret.level = CatalogLevel(StrLower(args[1]))
        /\ ret.level \in {"positive", "info", "warning", "critical"}
        /\ StrLower(args[1]) \notin Catalogued => ret.message = "generic"
        /\ \A e \in Catalogued : StrLower(args[1]) = e =>
              ret.message # "generic" /\ ret = _alert_profile(e)

C13_Witness ==
    /\ Called("_alert_profile")
    /\ args[1] = s_fear
    /\ ret.level = "warning" /\ ret.message = "fear"

\* the weekday name `days` days after the day of the hour h
WeekdayAfter(h, days) == DayNames[(((h \div 24) + days) % 7) + 1]

\* C14: for every now, the label of the +24h slot is "Tomorrow (<weekday>)" with the
\* weekday of now + 24h, and the label of the +72h slot is "<weekday> outlook" with
\* the weekday of now + 72h, wherever the wall clock stands.
C14_SlotLabelsNameWeekday ==
    Called("_resolve_slot_label") =>
        /\ args[1] = 2 => ret.form = "Tomorrow (%A)" /\ ret.weekday = WeekdayAfter(args[2], 1)
        /\ args[1] = 3 => ret.form = "%A outlook" /\ ret.weekday = WeekdayAfter(args[2], 3)

C14_Witness ==
    /\ Called("_resolve_slot_label")
    /\ args = <<3, 150, 7>>
    /\ ret = [form |-> "%A outlook", weekday |-> "Wednesday", hour |-> 0]

\* the events of the history h that fall on the weekday and in the 6-hour bucket of
\* target, and those that fall in its bucket
SameDayAndBucket(h, target) ==
    {i \in DOMAIN h : /\ (h[i].timestamp.hour \div 24) % 7 = (target \div 24) % 7
                      /\ (h[i].timestamp.hour % 24) \div 6 = (target % 24) \div 6}
SameBucket(h, target) ==
    {i \in DOMAIN h : (h[i].timestamp.hour % 24) \div 6 = (target % 24) \div 6}
\* the subset the three-stage fallback chooses
PatternSubset(h, target) ==
    IF SameDayAndBucket(h, target) # {} THEN SameDayAndBucket(h, target)
    ELSE IF SameBucket(h, target) # {} THEN SameBucket(h, target)
    ELSE DOMAIN h
\* the mean confidence of the events of S labelled `label`
MeanConfidence(h, S, label) ==
    LET L == {i \in S : StrLower(h[i].emotion) = label}
    IN  RDiv(RSumOver([i \in L |-> h[i].confidence.value], L), Int2Rat(Cardinality(L)))
PatternLabels(h, S) == {StrLower(h[i].emotion) : i \in S}

\* C18: the pattern distribution is the per-label mean confidence, normalised, over
\* one subset of the retained events: those on the target's weekday and in its
\* bucket if there is any, else those in its bucket if there is any, else all.
C18_PatternFallback ==
    Called("_pattern_distribution") =>
        LET S == PatternSubset(args[1], args[3])
            labels == PatternLabels(args[1], S)
            total == RSumOver([l \in labels |-> MeanConfidence(args[1], S, l)], labels)
        IN  /\ IsDict(ret)
            /\ AsMap(ret) = {<<l, RDiv(MeanConfidence(args[1], S, l), total)>> : l \in labels}

\* no event on the target's weekday or in its bucket: the mean over all of them
C18_Witness ==
    /\ Called("_pattern_distribution")
    /\ args = << << Event(Instant(222), s_angry, Number(Int2Rat(90))),
                    Event(Instant(222), s_angry, Number(Int2Rat(50))),
                    Event(Instant(66), s_sad, Number(Int2Rat(60))) >>, Now1, Now1 + 24 >>
    /\ SameBucket(args[1], args[3]) = {}
    /\ ret = << <<s_angry, Rat(7, 13)>>, <<s_sad, Rat(6, 13)>> >>

\* the entries of d with a weight > 0, and their labels in lower case
KeptEntries(d) == {i \in DOMAIN d : Positive(d[i][2])}
KeptLabels(d) == {StrLower(d[i][1]) : i \in KeptEntries(d)}
\* the input weight of the label k: of the last kept entry spelled k, when two kept
\* labels differ only in case
KeptWeight(d, k) ==
    d[CHOOSE i \in KeptEntries(d) :
        /\ StrLower(d[i][1]) = k
        /\ \A j \in KeptEntries(d) : StrLower(d[j][1]) = k => j <= i][2]
Multiplier(culture, modality, k) ==
    DGet(ProbabilityWeights(normalize_culture(culture), modality), k, One)
WeightedSum(d, culture, modality) ==
    RSumOver([k \in KeptLabels(d) |->
                 RMul(KeptWeight(d, k), Multiplier(culture, modality, k))], KeptLabels(d))
RAbs(x) == <<Abs(x[1]), x[2]>>

C20_DegenerateGivesEmpty ==
    (Called("adjust_probabilities") /\ KeptEntries(args[1]) = {}) => ret = <<>>

C20_Witness ==
    /\ Called("adjust_probabilities")
    /\ args = << << <<s_Happy, Zero>>, <<s_sad, Int2Rat(-20)>> >>, s_french, s_gaze >>
    /\ ret = <<>>

\* the events of history h within the recency window at `now`: logged at `now` or
\* up to RECENCY_WINDOW_HOURS before it
InWindow(h, now) ==
    {i \in DOMAIN h : /\ 0 <= now - h[i].timestamp.hour
                      /\ now - h[i].timestamp.hour <= RECENCY_WINDOW_HOURS}
\* the decayed weight of the events of S labelled `label`
RecencyScore(h, now, S, label) ==
    LET L == {i \in S : StrLower(h[i].emotion) = label}
    IN  RSumOver([i \in L |-> Decay(now - h[i].timestamp.hour)], L)

\* C24: the recency distribution is made of the events logged within the 36 hours
\* before now only, each weighing exp(-hours elapsed / 12): older events and events
\* timestamped after now add nothing, and of two events that count the more recent
\* never weighs less.
C24_RecencyWindow ==
    Called("_recent_distribution") =>
        LET h == args[1]
            W == InWindow(args[1], args[2])
            labels == {StrLower(args[1][i].emotion) : i \in W}
            total == RSumOver([l \in labels |-> RecencyScore(args[1], args[2], W, l)], labels)
        IN  /\ AsMap(ret) = {<<l, RDiv(RecencyScore(h, args[2], W, l), total)>> : l \in labels}
            /\ \A i, j \in W :
                  h[i].timestamp.hour >= h[j].timestamp.hour =>
                      RLe(Decay(args[2] - h[j].timestamp.hour),
                          Decay(args[2] - h[i].timestamp.hour))

\* every key of dict d is a lower-case string
LowerKeys(d) == \A k \in DKeys(d) : k = StrLower(k)

\* C25: the labels the core returns are lower case, whatever the case of the labels
\* it is given: the keys of adjust_probabilities's result, the keys and the dominant
\* label of fuse_emotions's, each the lower-cased form of an input label, and the
\* labels of the distributions the forecaster takes its dominant emotion from.
C25_LabelsLowerCase ==
    /\ Called("adjust_probabilities") =>
          /\ LowerKeys(ret)
          /\ DKeys(ret) \subseteq {StrLower(k) : k \in DKeys(args[1])}
    /\ Called("fuse_emotions") =>
          /\ LowerKeys(ret[3])
          /\ DKeys(ret[3]) \subseteq {StrLower(k) : k \in FuseLabels(args[1])}
          /\ ret[1] # None => ret[1] = StrLower(ret[1])
    /\ Called("_recent_distribution") => LowerKeys(ret)
    /\ Called("_pattern_distribution") => LowerKeys(ret)

\* the events of the store that have fewer than n events more recent than them
MostRecent(rows, n) ==
    {i \in DOMAIN rows :
        Cardinality({j \in DOMAIN rows :
                        rows[j].timestamp.hour > rows[i].timestamp.hour}) < n}

\* C26: with history_limit n >= 0, the events generate_forecast works from are at
\* most n, and they are the n most recent events of the store by timestamp (all of
\* them when the store holds fewer), newest first: no older event reaches it.
C26_HistoryLimit ==
    Called("fetch_events") =>
        /\ ret.ok
        /\ Len(ret.rows) <= args[2]
        /\ {ret.rows[i] : i \in DOMAIN ret.rows}
              = {args[1][i] : i \in MostRecent(args[1], args[2])}
        /\ \A i \in 1..(Len(ret.rows) - 1) :
              ret.rows[i].timestamp.hour >= ret.rows[i + 1].timestamp.hour

(***************************************************************************)
(* Properties of fuse_emotions in binary64, checked under SpecFloat.        *)
(***************************************************************************)
\* C3, for the floats of the build: two modalities carrying the same distribution
\* (positive total, positive confidences, equal source weights) fuse to the same
\* dominant label, confidence and percentage distribution as either of them alone.
C3_TwoIdenticalAsOne64 ==
    (Called("fuse_emotions") /\ TwiceTheSame(args[1], args[2]))
        => /\ ret = fuse_emotions64(<<args[1][1]>>, args[2])
           /\ ret = fuse_emotions64(<<args[1][2]>>, args[2])

\* the modality list in every order
Reorderings(modalities) ==
    {[i \in DOMAIN modalities |-> modalities[order[i]]] :
        order \in Orders(DOMAIN modalities)}

\* one label alone has the largest share of the distribution
UniqueMax(d) ==
    \E i \in DOMAIN d : \A j \in DOMAIN d : j # i => RLt(d[j][2], d[i][2])

\* C28: for every permutation of the modality list, with the same weights,
\* fuse_emotions returns the same distribution (label to share), and the same
\* dominant label whenever one label alone has the largest share.
C28_ModalityOrder ==
    Called("fuse_emotions") =>
        \A permuted \in Reorderings(args[1]) :
            LET other == fuse_emotions64(permuted, args[2])
            IN  /\ AsMap(other[3]) = AsMap(ret[3])
                /\ UniqueMax(ret[3]) => other[1] = ret[1]

(***************************************************************************)
(* Properties of generate_forecast, checked under Spec.                    *)
(***************************************************************************)
Ended == pc \in {"raised", "returned"}
InCall == pc # "idle"
\* an event _load_history is meant to discard
Discarded(e) == e.timestamp.kind # "instant" \/ e.emotion = None
\* an event with an unparseable timestamp or a non-numeric confidence
Malformed(e) == e.timestamp.kind # "instant" \/ e.confidence.kind # "number"

\* C7: generate_forecast returns [] when the store holds no event and when every
\* event it holds is discarded (unparseable timestamp or missing emotion), and no
\* slot is processed.
C7_AllDiscardedReturnsEmpty ==
    (InCall /\ up /\ \A i \in DOMAIN store : Discarded(store[i]))
        => pc = "returned" /\ forecasts = <<>> /\ slot = 0

\* C8: when the fetch fails the call ends in a failure, never in [] or a forecast;
\* every call makes exactly one fetch; and the caller shows the failure as a
\* warning, never as the caption of an empty forecast.
C8_FetchFailurePropagates ==
    /\ InCall => fetches = 1
    /\ (InCall /\ ~up) => pc = "raised" /\ forecasts = <<>> /\ slot = 0
    /\ (pc = "idle" /\ ~up /\ shown # "nothing") => shown = "warning"

C8_Witness ==
    /\ pc = "idle" /\ ~up /\ shown = "warning"
    /\ Len(store) = 2
    /\ \A i \in DOMAIN store : ~Discarded(store[i]) /\ ~Malformed(store[i])

\* the loop is at or past its first slot, or the call has returned from it
InLoop == pc \in {"slots", "returned"} /\ prepared # <<>>
\* the pattern and the combined distribution of slot k in the call under way; as a
\* map the combined distribution is the same for every iteration order
SlotPattern(k) == _pattern_distribution(prepared, now_ts + SLOT_DEFINITIONS[k].offset_hours)
SlotCombined(k) ==
    CombinedOrOverall(prepared,
        _combine_distributions(recency_weights, SlotPattern(k),
            CHOOSE o \in Orders({prepared[i].emotion : i \in DOMAIN prepared}) : TRUE))
\* the largest value of a non-empty distribution
TopScore(d) == d[CHOOSE i \in DOMAIN d : \A j \in DOMAIN d : RLe(d[j][2], d[i][2])][2]

\* C11: every ForecastInsight built has a confidence between 0 and 100, equal to
\* min(top combined score x 100, 100) rounded to one decimal, and at least three
\* insight sentences; every slot the loop has been through has built one.
C11_ConfidenceAndInsights ==
    InLoop =>
        /\ Len(forecasts) = slot
        /\ \A k \in DOMAIN forecasts :
              /\ RLe(Zero, forecasts[k].confidence)
              /\ RLe(forecasts[k].confidence, Int2Rat(100))
              /\ forecasts[k].confidence = RoundPct(RMin(TopScore(SlotCombined(k)), One))
              /\ Len(forecasts[k].insights) >= 3

\* a top score of 0.7, three sentences for the first slot and a fourth, on the
\* shift of the trend, for the second
C11_Witness ==
    /\ pc = "returned" /\ Len(forecasts) = 3
    /\ forecasts[1].emotion = s_sad
    /\ forecasts[1].confidence = Int2Rat(70)
    /\ Len(forecasts[1].insights) = 3
    /\ Len(forecasts[2].insights) = 4

\* every retained event is within the recency window, labelled "angry", with a
\* confidence >= 80
AllRecentAngry ==
    /\ history # <<>>
    /\ \A i \in DOMAIN history :
          /\ now_ts - history[i].timestamp.hour <= RECENCY_WINDOW_HOURS
          /\ history[i].emotion = s_angry
          /\ history[i].confidence.kind = "number"
          /\ RLe(Int2Rat(80), history[i].confidence.value)

\* C12: when every retained event is within the recency window, labelled "angry"
\* and of confidence >= 80, the first ForecastInsight is "angry" with a confidence
\* above 80.
C12_AllAngryForecastsAngry ==
    (InLoop /\ slot >= 1 /\ AllRecentAngry) =>
        /\ Len(forecasts) >= 1
        /\ forecasts[1].emotion = s_angry
        /\ RLt(Int2Rat(80), forecasts[1].confidence)

C12_Witness ==
    /\ pc = "returned" /\ AllRecentAngry /\ Len(history) = 2
    /\ forecasts[1].emotion = s_angry /\ forecasts[1].confidence = Int2Rat(100)

\* C17: when no retained event is within the recency window, the combined
\* distribution of every slot is the slot's pattern distribution alone, and the
\* confidence of its ForecastInsight is the top pattern share.
C17_EmptyRecencyUsesPatternAlone ==
    (InLoop /\ _recent_distribution(prepared) = <<>>) =>
        \A k \in 1..slot :
            /\ AsMap(SlotCombined(k)) = AsMap(SlotPattern(k))
            /\ k \in DOMAIN forecasts =>
                  forecasts[k].confidence = RoundPct(TopScore(SlotPattern(k)))

RECURSIVE Runs(_, _, _, _, _, _, _)
\* the lists the loop over the slots can return, from slot k on
Runs(rows, recency, now, date, k, previous, sofar) ==
    IF k > Len(SLOT_DEFINITIONS) THEN {sofar}
    ELSE UNION { Runs(rows, recency, now, date, k + 1,
                      ProcessSlotBody(rows, recency, SLOT_DEFINITIONS[k], now, date,
                                      previous, order).previous_emotion,
                      IF ProcessSlotBody(rows, recency, SLOT_DEFINITIONS[k], now, date,
                                         previous, order).emitted
                      THEN Append(sofar, ProcessSlotBody(rows, recency, SLOT_DEFINITIONS[k],
                                                         now, date, previous, order).insight)
                      ELSE sofar) :
                 order \in Orders({rows[i].emotion : i \in DOMAIN rows}) }
\* what generate_forecast may return for a store of well-formed events
ForecastsOf(rows, now, date) ==
    IF _load_history(rows, TRUE).rows = <<>> THEN {<<>>}
    ELSE Runs(_prepare(_load_history(rows, TRUE).rows, now).rows,
              RecencyWeights(_prepare(_load_history(rows, TRUE).rows, now).rows),
              now, date, 1, None, <<>>)

\* C9: a stored event with an unparseable timestamp or a non-numeric confidence
\* never makes generate_forecast fail: the call returns what it returns for the
\* store without that event.
C9_MalformedEventsDropped ==
    (Ended /\ up /\ \E i \in DOMAIN store : Malformed(store[i]))
        => /\ pc = "returned"
           /\ forecasts \in ForecastsOf(Where(store, {i \in DOMAIN store : ~Malformed(store[i])}),
                                        now_ts, today)

\* the sentences of the given kind in an insight
Sentences(insight, kind) ==
    {i \in DOMAIN insight.insights : insight.insights[i].kind = kind}
\* the second largest value of a distribution of two labels or more (the largest,
\* when two labels share it)
SecondScore(d) ==
    TopScore(Where(d, DOMAIN d \ {CHOOSE i \in DOMAIN d :
                                     \A j \in DOMAIN d : RLe(d[j][2], d[i][2])}))
\* the gap, in percentage points, between the two largest shares
GapPoints(d) ==
    RMul(Int2Rat(100), RAdd(TopScore(d), RMul(Int2Rat(-1), SecondScore(d))))

C23_FirstLabelFromNow ==
    (InLoop /\ Len(forecasts) >= 1) =>
        LET target == now_ts + SLOT_DEFINITIONS[1].offset_hours
        IN  IF date_of(target) = date_of(now_ts)
            THEN forecasts[1].label.form = "Later today"
            ELSE /\ forecasts[1].label.form = "Soon (%A %H:%M)"
                 /\ forecasts[1].label.weekday = day_name(target)
                 /\ forecasts[1].label.hour = hour_of(target)

\* C29: generate_forecast returns the empty list or exactly three insights; when at
\* least one event survives loading no slot is skipped, and the k-th insight is the
\* one of the k-th slot (+6h, +24h, +72h), its timestamp being now plus that offset.
C29_ThreeInsightsInSlotOrder ==
    pc = "returned" =>
        /\ forecasts = <<>> \/ Len(forecasts) = 3
        /\ history = <<>> => forecasts = <<>>
        /\ history # <<>> =>
              /\ Len(forecasts) = Len(SLOT_DEFINITIONS)
              /\ <<forecasts[1].timestamp, forecasts[2].timestamp, forecasts[3].timestamp>>
                    = <<now_ts + 6, now_ts + 24, now_ts + 72>>
              /\ \A k \in DOMAIN forecasts :
                    forecasts[k].timestamp = now_ts + SLOT_DEFINITIONS[k].offset_hours

\* a call that returned three insights from a store one of whose events was dropped
\* at loading
C29_Witness ==
    /\ pc = "returned"
    /\ history # <<>> /\ Len(history) < Len(store)
    /\ Len(forecasts) = 3
    /\ forecasts[3].timestamp = now_ts + 72

\* the labels of the retained events, as stored
HistoryLabels == {history[i].emotion : i \in DOMAIN history}

\* C30: the dominant emotion of every ForecastInsight is the lower-cased label of
\* a retained history event; a secondary, when set, is such a label too, differs
\* from the dominant emotion, and its share is > 0 and at most the dominant's
\* combined share.
C30_LabelsFromHistory ==
    InLoop =>
        \A k \in DOMAIN forecasts :
            /\ \E label \in HistoryLabels : forecasts[k].emotion = StrLower(label)
            /\ forecasts[k].secondary # None =>
                  /\ \E label \in HistoryLabels :
                        forecasts[k].secondary[1] = StrLower(label)
                  /\ forecasts[k].secondary[1] # forecasts[k].emotion
                  /\ Positive(forecasts[k].secondary[2])
                  /\ RLe(forecasts[k].secondary[2], TopScore(SlotCombined(k)))
                  /\ TopScore(SlotCombined(k)) = DGet(SlotCombined(k), forecasts[k].emotion, Zero)

\* a forecast whose dominant emotion was stored with an upper-case letter, with a
\* secondary emotion beside it
C30_Witness ==
    /\ pc = "returned" /\ Len(forecasts) = 3
    /\ s_happy \notin HistoryLabels
    /\ \E k \in DOMAIN forecasts :
          /\ forecasts[k].emotion = s_happy
          /\ forecasts[k].secondary # None
          /\ RLt(forecasts[k].secondary[2], TopScore(SlotCombined(k)))

\* the ranked combined distribution of slot k when the set of labels is iterated
\* in the order `order`
RankedOf(k, order) ==
    LET c == CombinedOrOverall(prepared,
                 _combine_distributions(recency_weights, SlotPattern(k), order))
    IN  SortDesc(c, List([i \in DOMAIN c |-> c[i][2]]))

\* C27: the dominant and the secondary emotion of every slot follow from the event
\* history and `now` alone, also when two emotions have equal scores: whatever the
\* order in which the set of labels is iterated, the ranking begins with the
\* emotions of the ForecastInsight that was built.
C27_DominantDeterministic ==
    InLoop =>
        \A k \in DOMAIN forecasts :
            \A order \in Orders({prepared[i].emotion : i \in DOMAIN prepared}) :
                /\ RankedOf(k, order)[1][1] = forecasts[k].emotion
                /\ forecasts[k].secondary # None =>
                      RankedOf(k, order)[2][1] = forecasts[k].secondary[1]

(***************************************************************************)
(* Properties of concurrent invocations, checked under SpecCallers.        *)
(***************************************************************************)
Finished(c) == callers[c].pc \in {"returned", "raised"}
Active(c) == callers[c].pc # "idle"

RECURSIVE CanReturn(_, _, _, _, _, _, _, _)
\* the loop over the slots, from slot k on with `sofar` collected, can return the
\* list `target`: some choice of the orders of the labels leads to it
CanReturn(rows, recency, now, date, k, previous, sofar, target) ==
    IF k > Len(SLOT_DEFINITIONS) THEN sofar = target
    ELSE \E order \in Orders({rows[i].emotion : i \in DOMAIN rows}) :
            LET outcome == ProcessSlotBody(rows, recency, SLOT_DEFINITIONS[k], now, date,
                                           previous, order)
                collected == IF outcome.emitted THEN Append(sofar, outcome.insight)
                             ELSE sofar
            IN  /\ Len(collected) <= Len(target)
                /\ collected = SubSeq(target, 1, Len(collected))
                /\ CanReturn(rows, recency, now, date, k + 1, outcome.previous_emotion,
                             collected, target)
\* generate_forecast, run alone at `now` over the store `rows` of well-formed
\* events, can end this way with this value
ForecastAlone(rows, now, date, ended, value) ==
    LET loaded == _load_history(rows, TRUE)
        usable == _prepare(loaded.rows, now)
    IN  IF ~loaded.ok \/ ~usable.ok THEN ended = "raised"
        ELSE /\ ended = "returned"
             /\ IF loaded.rows = <<>> THEN value = <<>>
                ELSE CanReturn(usable.rows, RecencyWeights(usable.rows), now, date, 1,
                               None, <<>>, value)
\* the invocation of caller c ended as it can end when it runs alone over the
\* store `rows`
Alone(c, rows) ==
    CASE callers[c].op = "fuse_emotions" ->
            /\ callers[c].pc = "returned"
            /\ callers[c].ret = fuse_emotions(callers[c].args[1], callers[c].args[2])
      [] callers[c].op = "adjust_probabilities" ->
            /\ callers[c].pc = "returned"
            /\ callers[c].ret = adjust_probabilities(callers[c].args[1], callers[c].args[2],
                                                     callers[c].args[3])
      [] callers[c].op = "generate_forecast" ->
            ForecastAlone(rows, callers[c].args[1], callers[c].args[2],
                          callers[c].pc, callers[c].ret)
      [] OTHER -> FALSE
ResultsAsAlone ==
    \A c \in 1..NumCallers :
        (Finished(c) /\ callers'[c].pc = "idle") => Alone(c, store)
\* a step of one caller leaves every other caller, and its frame, as they were
NoInterference ==
    \A c, d \in 1..NumCallers :
        (c # d /\ callers'[c] # callers[c]) =>
            callers'[d] = callers[d] /\ frames'[d] = frames[d]

\* C15: invocations of fuse_emotions, adjust_probabilities and generate_forecast by
\* several callers, interleaved in any order over an unchanged event store, each
\* end as they can end when run alone, and no step of one invocation writes what
\* another caller holds or another invocation's locals.  (The result of an
\* invocation is looked at in the step that collects it, which every ended
\* invocation has ahead of it.)
C15_ConcurrentAsAlone == [][NoInterference /\ ResultsAsAlone]_vars

\* a forecast has returned while a fusion by the other caller is inside its loop
C15_Witness ==
    /\ callers[1].op = "generate_forecast" /\ callers[1].pc = "returned"
    /\ Len(callers[1].ret) = 3
    /\ callers[2].op = "fuse_emotions" /\ callers[2].pc = "fuse" /\ callers[2].k = 1
    /\ frames[2].aggregated # <<>>

\* C16: a step of an invocation leaves the event store as it was, and leaves the
\* arguments the caller passed (the distributions, the modality list, the weights
\* map) as they were, up to and including its return.
C16_OnlyTheReturnValue ==
    [][(\E c \in 1..NumCallers : callers'[c] # callers[c]) =>
            /\ store' = store
            /\ \A c \in 1..NumCallers :
                  (Active(c) /\ callers'[c].pc # "idle") =>
                      callers'[c].args = callers[c].args]_vars

\* a fusion called with an empty weights map and a forecast over two stored events
\* have both returned
C16_Witness ==
    /\ callers[1].op = "fuse_emotions" /\ callers[1].pc = "returned"
    /\ Len(callers[1].args[1]) = 2 /\ callers[1].args[2] = <<>>
    /\ callers[1].ret[1] = s_happy
    /\ callers[2].op = "generate_forecast" /\ callers[2].pc = "returned"
    /\ store = CallerLog

====
